---- MODULE Spec2Model ----
(***************************************************************************)
(* Power Query Explorer: model of the extraction pipeline.                 *)
(*                                                                         *)
(*   SpecM      the query source analyzer (stripCS, parseMCodeFile,        *)
(*              findDeps, findExternalFileRefs) on character sequences     *)
(*   SpecMashup extractFromDataMashup on one candidate byte range          *)
(*   SpecX9     decompressXpress9 and the decoder session of the wrapper   *)
(*   SpecCol    extractTableData / _extractColumn over a file cache        *)
(*   SpecApp    processFiles and the application state                     *)
(*   SpecRun    one run of processFiles from the head of its loop          *)
(*   SpecRecord parseRecord of the metadata database reader                *)
(*   SpecScan   readTable of the metadata database reader                  *)
(*   SpecIdf    decodeRleBitPackedHybrid on a value index                  *)
(*   SpecDict   readNumericDictionary and the resolution of ids            *)
(*   SpecHuff   buildHuffmanTree on tables of code lengths                 *)
(*   SpecStrip  stripCS on short texts                                     *)
(*   SpecYield  the long scans, turn by turn                               *)
(*   SpecRuns   runs of processFiles that overlap at their awaits          *)
(*   SpecBlocks the single-threaded block loop with its offsets            *)
(*   SpecPbix   parsePbixFile, path by path                                *)
(*   SpecCycle  readTable on databases whose page pointers loop back       *)
(*   SpecUnpack the unpacking of one sub-segment word at every bit width   *)
(*   SpecPanel  the code panel, its filters and Copy Selected              *)
(*                                                                         *)
(* Texts are sequences of one-character strings; indices are 1-based, so   *)
(* a JavaScript index k is the position k+1 here.                          *)
(***************************************************************************)
EXTENDS Integers, Sequences, FiniteSets, TLC

VARIABLES
    mText, mSelf, mPc, mQueries,          \* query source analyzer
    dBuf, dPc, dQ, dRaised, dLog,         \* extractFromDataMashup
    xIn, xPc, xDec, xRun, xOut,           \* decompressXpress9
    cIn, cPc, cOut,                       \* extractTableData
    aInput, aState, aRuns,                \* processFiles
    fIn, fPc, fOut                        \* one decoding function and its input

varsM == <<mText, mSelf, mPc, mQueries>>
varsD == <<dBuf, dPc, dQ, dRaised, dLog>>
varsX == <<xIn, xPc, xDec, xRun, xOut>>
varsC == <<cIn, cPc, cOut>>
varsA == <<aInput, aState, aRuns>>
varsF == <<fIn, fPc, fOut>>
vars == <<varsM, varsD, varsX, varsC, varsA, varsF>>

(***************************************************************************)
(* Characters                                                              *)
(***************************************************************************)
Q == "\""
NL == "\n"
BOM == "BOM"
Undef == "undefined"

UpperSeq == <<"A","B","C","D","E","F","G","H","I","J","K","L","M",
              "N","O","P","Q","R","S","T","U","V","W","X","Y","Z">>
LowerSeq == <<"a","b","c","d","e","f","g","h","i","j","k","l","m",
              "n","o","p","q","r","s","t","u","v","w","x","y","z">>
Letters == {UpperSeq[i] : i \in DOMAIN UpperSeq} \cup {LowerSeq[i] : i \in DOMAIN LowerSeq}
Digits == {"0","1","2","3","4","5","6","7","8","9"}

LowerOf(c) ==
    IF \E i \in DOMAIN UpperSeq : UpperSeq[i] = c
    THEN LowerSeq[CHOOSE i \in DOMAIN UpperSeq : UpperSeq[i] = c]
    ELSE c

\* \w of a JavaScript regular expression
IsWordCh(c) == c \in Letters \cup Digits \cup {"_"}
\* \s of a JavaScript regular expression (the characters the inputs use)
IsSpaceCh(c) == c \in {" ", "\t", NL, "\r", BOM}
\* [A-Za-z_]
IsIdStart(c) == c \in Letters \cup {"_"}

\* s[i] of JavaScript: undefined outside the text
At(s, i) == IF i >= 1 /\ i <= Len(s) THEN s[i] ELSE Undef

\* \b before position i
WordBoundary(s, i) == IsWordCh(At(s, i - 1)) # IsWordCh(At(s, i))

\* the literal lit (lower case) matches at i, ignoring case
MatchCI(s, i, lit) == \A k \in 1..Len(lit) : LowerOf(At(s, i + k - 1)) = lit[k]

RECURSIVE SkipSpace(_, _)
\* \s* from i: the first position that is no white space
SkipSpace(s, i) == IF IsSpaceCh(At(s, i)) THEN SkipSpace(s, i + 1) ELSE i

RECURSIVE WordEnd(_, _)
\* \w* from i: the first position that is no word character
WordEnd(s, i) == IF IsWordCh(At(s, i)) THEN WordEnd(s, i + 1) ELSE i

RECURSIVE Join(_)
\* the string of a character sequence
Join(s) == IF s = <<>> THEN "" ELSE s[1] \o Join(Tail(s))

RECURSIVE Unescape(_)
\* .replace(/""/g,'"')
Unescape(s) ==
    IF s = <<>> THEN <<>>
    ELSE IF s[1] = Q /\ At(s, 2) = Q THEN <<Q>> \o Unescape(SubSeq(s, 3, Len(s)))
    ELSE <<s[1]>> \o Unescape(Tail(s))

RECURSIVE TrimLeft(_)
TrimLeft(s) == IF s # <<>> /\ IsSpaceCh(s[1]) THEN TrimLeft(Tail(s)) ELSE s
RECURSIVE TrimRight(_)
TrimRight(s) ==
    IF s # <<>> /\ IsSpaceCh(s[Len(s)]) THEN TrimRight(SubSeq(s, 1, Len(s) - 1)) ELSE s
\* String.prototype.trim
Trim(s) == TrimRight(TrimLeft(s))

RECURSIVE IndexOfCh(_, _, _)
\* s.indexOf(c, from): first position >= from holding c, 0 when there is none
IndexOfCh(s, c, from) ==
    IF from > Len(s) THEN 0
    ELSE IF from >= 1 /\ s[from] = c THEN from
    ELSE IndexOfCh(s, c, from + 1)

RECURSIVE LastIndexOfCh(_, _, _)
\* s.lastIndexOf(c), searched down from position i; 0 when there is none
LastIndexOfCh(s, c, i) ==
    IF i < 1 THEN 0 ELSE IF s[i] = c THEN i ELSE LastIndexOfCh(s, c, i - 1)

RECURSIVE IndexOfSub(_, _, _)
\* s.indexOf(sub): first position from which sub occurs, 0 when there is none
IndexOfSub(s, sub, from) ==
    IF from + Len(sub) - 1 > Len(s) THEN 0
    ELSE IF SubSeq(s, from, from + Len(sub) - 1) = sub THEN from
    ELSE IndexOfSub(s, sub, from + 1)

\* Set insertion order of Array.from(new Set(...))
AddOnce(seq, x) == IF \E i \in DOMAIN seq : seq[i] = x THEN seq ELSE Append(seq, x)

(***************************************************************************)
(* stripCS: app.js 189-199                                                 *)
(***************************************************************************)
\* the character kept as it is
KeepCh(c) == c

\* code[i]==='\n'?'\n':' ' (app.js 193, 194)
NlOrSp(c) == IF c = NL THEN NL ELSE " "

RECURSIVE StripCode(_, _), StripQid(_, _), StripStr(_, _), StripBlk(_, _), StripLine(_, _)
\* inside #"...": copied verbatim up to the closing quote
StripQid(code, i) ==
    CASE i > Len(code) -> <<>>
      [] i <= Len(code) /\ code[i] = Q /\ At(code, i + 1) = Q -> <<Q, Q>> \o StripQid(code, i + 2)
      [] i <= Len(code) /\ code[i] = Q /\ At(code, i + 1) # Q -> <<Q>> \o StripCode(code, i + 1)
      [] OTHER -> <<code[i]>> \o StripQid(code, i + 1)

\* inside "...": blanked, line breaks kept
StripStr(code, i) ==
    CASE i > Len(code) -> <<>>
      [] i <= Len(code) /\ code[i] = Q /\ At(code, i + 1) = Q -> <<" ", " ">> \o StripStr(code, i + 2)
      [] i <= Len(code) /\ code[i] = Q /\ At(code, i + 1) # Q -> <<" ">> \o StripCode(code, i + 1)
      [] OTHER -> <<NlOrSp(code[i])>> \o StripStr(code, i + 1)

\* inside a block comment
StripBlk(code, i) ==
    CASE i > Len(code) -> <<>>
      [] i <= Len(code) /\ code[i] = "*" /\ At(code, i + 1) = "/" -> <<" ", " ">> \o StripCode(code, i + 2)
      [] OTHER -> <<NlOrSp(code[i])>> \o StripBlk(code, i + 1)

\* inside a line comment: up to, not including, the line break
StripLine(code, i) ==
    IF i <= Len(code) /\ code[i] # NL THEN <<" ">> \o StripLine(code, i + 1)
    ELSE StripCode(code, i)

\* outside strings, comments and quoted identifiers (the tests in the order of the code)
StripCode(code, i) ==
    CASE i > Len(code) -> <<>>
      [] i <= Len(code) /\ code[i] = "#" /\ At(code, i + 1) = Q -> <<"#", Q>> \o StripQid(code, i + 2)
      [] i <= Len(code) /\ code[i] = Q -> <<" ">> \o StripStr(code, i + 1)
      [] i <= Len(code) /\ code[i] = "/" /\ At(code, i + 1) = "*" -> <<" ", " ">> \o StripBlk(code, i + 2)
      [] i <= Len(code) /\ code[i] = "/" /\ At(code, i + 1) = "/" -> StripLine(code, i)
      [] OTHER -> <<code[i]>> \o StripCode(code, i + 1)

stripCS(code) == StripCode(code, 1)

(***************************************************************************)
(* parseMCodeFile: app.js 201-226                                          *)
(***************************************************************************)
RECURSIVE DeclQuoteEnd(_, _)
\* #"(?:[^"]*(?:""[^"]*)*)" followed by something that is no quote: the closing
\* quote is the first quote that does not start a "" pair; 0 when there is none
DeclQuoteEnd(s, j) ==
    IF j > Len(s) THEN 0
    ELSE IF s[j] # Q THEN DeclQuoteEnd(s, j + 1)
    ELSE IF At(s, j + 1) = Q THEN DeclQuoteEnd(s, j + 2)
    ELSE j

\* shared\s+(#"..."|[\w_][\w_]*)\s*=  matched at position i, ignoring case:
\* [ok, nameFrom, nameTo, end] with end the position after the "="
DeclParts(s, i) ==
    LET none == [ok |-> FALSE, nameFrom |-> 0, nameTo |-> 0, end |-> 0]
        a == i + 6
        b == SkipSpace(s, a)
        nameTo == IF At(s, b) = "#" /\ At(s, b + 1) = Q THEN DeclQuoteEnd(s, b + 2)
                  ELSE IF IsWordCh(At(s, b)) THEN WordEnd(s, b) - 1
                  ELSE 0
        d == SkipSpace(s, nameTo + 1)
    IN  IF ~MatchCI(s, i, <<"s","h","a","r","e","d">>) THEN none
        ELSE IF b = a THEN none
        ELSE IF nameTo = 0 THEN none
        ELSE IF At(s, d) # "=" THEN none
        ELSE [ok |-> TRUE, nameFrom |-> b, nameTo |-> nameTo, end |-> d + 1]

RECURSIVE FindDecls(_, _)
\* the match positions of re.exec(stripped) with the g flag (app.js 205-207)
FindDecls(s, i) ==
    IF i > Len(s) THEN <<>>
    ELSE IF WordBoundary(s, i) /\ DeclParts(s, i).ok
         THEN <<i>> \o FindDecls(s, DeclParts(s, i).end)
         ELSE FindDecls(s, i + 1)

\* /\blet\b/i.test(s), /\bin\b/i.test(s)
HasWord(s, lit) ==
    \E i \in 1..Len(s) :
        /\ MatchCI(s, i, lit)
        /\ WordBoundary(s, i)
        /\ WordBoundary(s, i + Len(lit))

(***************************************************************************)
(* findDeps: app.js 228-254                                                *)
(***************************************************************************)
MKW == {
    "let", "in", "if", "then", "else", "true", "false", "null", "and", "or", "not",
    "each", "error", "try", "otherwise", "type", "is", "as", "meta", "section",
    "shared", "Table", "List", "Record", "Text", "Number", "Date", "DateTime",
    "DateTimeZone", "Duration", "Time", "Function", "Binary", "Csv", "Json", "Xml",
    "Excel", "Sql", "OData", "Web", "File", "Folder", "Lines", "Splitter", "Comparer",
    "Combiner", "Replacer", "Expression", "Error", "Value", "Type", "Action", "Uri",
    "Byte", "Currency", "Percentage", "Int8", "Int16", "Int32", "Int64", "Single",
    "Double", "Decimal", "Logical", "Access", "ActiveDirectory", "AdobeAnalytics",
    "AdoDotNet", "AnalysisServices", "AzureStorage", "DB2", "Cube", "Diagnostics",
    "Exchange", "Facebook", "GoogleAnalytics", "Hdfs", "Informix", "MySQL", "Odbc",
    "OleDb", "Oracle", "PDF", "PostgreSQL", "Salesforce", "SapBusinessWarehouse",
    "SapHana", "SharePoint", "Sybase", "Teradata", "Power", "Any", "Source",
    "Navigation", "Data", "Schema", "Item"}

RECURSIVE ScanCode(_, _), ScanQid(_, _)
\* the scan text: contents of #"..." blanked (app.js 233-247)
ScanQid(sc, i) ==
    CASE i > Len(sc) -> <<>>
      [] i <= Len(sc) /\ sc[i] = Q /\ At(sc, i + 1) = Q -> <<" ", " ">> \o ScanQid(sc, i + 2)
      [] i <= Len(sc) /\ sc[i] = Q /\ At(sc, i + 1) # Q -> <<Q>> \o ScanCode(sc, i + 1)
      [] OTHER -> <<NlOrSp(sc[i])>> \o ScanQid(sc, i + 1)

ScanCode(sc, i) ==
    CASE i > Len(sc) -> <<>>
      [] i <= Len(sc) /\ sc[i] = "#" /\ At(sc, i + 1) = Q -> <<"#", Q>> \o ScanQid(sc, i + 2)
      [] OTHER -> <<sc[i]>> \o ScanCode(sc, i + 1)

\* the test of app.js 250 on the identifier scan[i..e-1]
KeepIdent(scan, i, e, self) ==
    LET id == Join(SubSeq(scan, i, e - 1))
    IN  id # self /\ id \notin MKW /\ At(scan, i) \notin Digits /\ At(scan, e) # "."

RECURSIVE BareDeps(_, _, _, _)
\* /\b([A-Za-z_][\w]*)\b/g over scan, added to d in match order (app.js 249-250)
BareDeps(scan, i, self, d) ==
    IF i > Len(scan) THEN d
    ELSE IF ~(IsWordCh(scan[i]) /\ WordBoundary(scan, i)) THEN BareDeps(scan, i + 1, self, d)
    ELSE LET e == WordEnd(scan, i)
         IN  IF IsIdStart(scan[i]) /\ KeepIdent(scan, i, e, self)
             THEN BareDeps(scan, e, self, AddOnce(d, Join(SubSeq(scan, i, e - 1))))
             ELSE BareDeps(scan, e, self, d)

RECURSIVE QidClose(_, _, _)
\* the closing quote of #"((?:[^"]*(?:""[^"]*)*)?)" with nothing required after
\* it: the first quote that starts no "" pair, else (backtracking) the first
\* quote of the last "" pair; 0 when the text holds no quote
QidClose(sc, j, fallback) ==
    IF j > Len(sc) THEN fallback
    ELSE IF sc[j] # Q THEN QidClose(sc, j + 1, fallback)
    ELSE IF At(sc, j + 1) = Q THEN QidClose(sc, j + 2, j)
    ELSE j

\* the quoted-identifier loop without its test on the query's own name
KeepQuotedAnyName(sc, i, c, self) == TRUE

\* the test of app.js 252 on the quoted identifier whose content is sc[i..c-1]
KeepQuoted(sc, i, c, self) == Join(Unescape(SubSeq(sc, i, c - 1))) # self

RECURSIVE QuotedDeps(_, _, _, _)
\* /#"(...)"/g over sc, added to d in match order (app.js 251-252)
QuotedDeps(sc, i, self, d) ==
    IF i > Len(sc) THEN d
    ELSE IF ~(sc[i] = "#" /\ At(sc, i + 1) = Q) THEN QuotedDeps(sc, i + 1, self, d)
    ELSE LET c == QidClose(sc, i + 2, 0)
         IN  IF c = 0 THEN QuotedDeps(sc, i + 1, self, d)
             ELSE IF KeepQuoted(sc, i + 2, c, self)
             THEN QuotedDeps(sc, c + 1, self, AddOnce(d, Join(Unescape(SubSeq(sc, i + 2, c - 1)))))
             ELSE QuotedDeps(sc, c + 1, self, d)

\* the bare identifiers first, then the quoted ones (app.js 248-253)
findDeps(sc, self) ==
    LET bare == BareDeps(ScanCode(sc, 1), 1, self, <<>>)
    IN  IF Len(bare) >= 0 THEN QuotedDeps(sc, 1, self, bare) ELSE <<>>

(***************************************************************************)
(* findExternalFileRefs: app.js 256-269                                    *)
(***************************************************************************)
\* (?:File|Folder)\.Contents\s*\(\s*(#"..."|"...")\s*\) matched at i, ignoring
\* case: [ok, litFrom, litTo, end], the literal with its quotes at litFrom..litTo
RefParts(code, i) ==
    LET none == [ok |-> FALSE, litFrom |-> 0, litTo |-> 0, end |-> 0]
        a == IF MatchCI(code, i, <<"f","i","l","e">>) THEN i + 4
             ELSE IF MatchCI(code, i, <<"f","o","l","d","e","r">>) THEN i + 6
             ELSE 0
        b == SkipSpace(code, a + 9)
        c == SkipSpace(code, b + 1)
        litTo == IF At(code, c) = "#" /\ At(code, c + 1) = Q THEN DeclQuoteEnd(code, c + 2)
                 ELSE IF At(code, c) = Q THEN DeclQuoteEnd(code, c + 1)
                 ELSE 0
        d == SkipSpace(code, litTo + 1)
    IN  IF a = 0 THEN none
        ELSE IF ~MatchCI(code, a, <<".","c","o","n","t","e","n","t","s">>) THEN none
        ELSE IF At(code, b) # "(" THEN none
        ELSE IF litTo = 0 THEN none
        ELSE IF At(code, d) # ")" THEN none
        ELSE [ok |-> TRUE, litFrom |-> c, litTo |-> litTo, end |-> d + 1]

RECURSIVE CutQuery(_, _)
\* .replace(/[?#].*$/,''): cut at the first ? or # with no line break after it
CutQuery(p, i) ==
    IF i > Len(p) THEN p
    ELSE IF p[i] \in {"?", "#"} /\ \A k \in i + 1..Len(p) : p[k] \notin {NL, "\r"}
         THEN SubSeq(p, 1, i - 1)
         ELSE CutQuery(p, i + 1)

RECURSIVE CutSlashes(_)
\* .replace(/[\\\/]+$/,'')
CutSlashes(p) ==
    IF p # <<>> /\ p[Len(p)] \in {"/", "\\"} THEN CutSlashes(SubSeq(p, 1, Len(p) - 1)) ELSE p

\* the last segment of .split(/[\\\/]/)
LastSegment(p) ==
    LET cuts == {k \in 1..Len(p) : p[k] \in {"/", "\\"}}
        last == IF cuts = {} THEN 0 ELSE CHOOSE k \in cuts : \A j \in cuts : j <= k
    IN  SubSeq(p, last + 1, Len(p))

\* the base name of one matched literal (app.js 260-265)
RefBase(lit) ==
    LET p == IF lit[1] = "#" THEN Unescape(SubSeq(lit, 3, Len(lit) - 1))
             ELSE Unescape(SubSeq(lit, 2, Len(lit) - 1))
        s == LastSegment(CutSlashes(CutQuery(p, 1)))
    IN  IF s # <<>> THEN s ELSE p

RECURSIVE ExternalRefs(_, _, _)
ExternalRefs(code, i, refs) ==
    IF i > Len(code) THEN refs
    ELSE LET m == RefParts(code, i)
         IN  IF ~m.ok THEN ExternalRefs(code, i + 1, refs)
             ELSE LET base == RefBase(SubSeq(code, m.litFrom, m.litTo))
                  IN  ExternalRefs(code, m.end,
                                   IF base # <<>> THEN AddOnce(refs, Join(base)) ELSE refs)

findExternalFileRefs(code) == ExternalRefs(code, 1, <<>>)

(***************************************************************************)
(* parseMCodeFile, the query records: app.js 201-226                       *)
(***************************************************************************)
\* the declared name of nm[1]: #"..." unquoted and unescaped (app.js 215-216)
DeclName(raw) ==
    IF At(raw, 1) = "#" /\ At(raw, 2) = Q
    THEN Join(Unescape(SubSeq(raw, 3, Len(raw) - 1)))
    ELSE Join(raw)

\* the query text qc of one chunk (app.js 217-219); nm is DeclParts(chunk, 1)
ChunkCode(chunk, sc, nm) ==
    LET raw == SubSeq(chunk, nm.nameFrom, nm.nameTo)
        eq == IndexOfCh(chunk, "=", IndexOfSub(chunk, raw, 1) + Len(raw))
        sb == SubSeq(sc, eq + 1, Len(sc))
        ls == LastIndexOfCh(sb, ";", Len(sb))
    IN  IF ls # 0 THEN Trim(SubSeq(chunk, eq + 1, eq + ls - 1))
        ELSE Trim(SubSeq(chunk, eq + 1, Len(chunk)))

\* one query record (app.js 220)
MakeQuery(name, qc, fn, deps, refs) ==
    [name |-> name, code |-> Join(qc), fileName |-> fn, dependencies |-> deps,
     externalRefs |-> refs]

RECURSIVE ChunkQueries(_, _, _, _, _)
\* the loop of app.js 210-221 over the declaration positions pos[k..]
ChunkQueries(code, stripped, pos, k, fn) ==
    IF k > Len(pos) THEN <<>>
    ELSE LET s == pos[k]
             e == IF k + 1 <= Len(pos) THEN pos[k + 1] - 1 ELSE Len(code)
             chunk == SubSeq(code, s, e)
             sc == SubSeq(stripped, s, e)
             nm == DeclParts(chunk, 1)
             name == DeclName(SubSeq(chunk, nm.nameFrom, nm.nameTo))
             qc == ChunkCode(chunk, sc, nm)
         IN  IF ~nm.ok THEN ChunkQueries(code, stripped, pos, k + 1, fn)
             ELSE <<MakeQuery(name, qc, fn, findDeps(stripCS(qc), name), findExternalFileRefs(qc))>>
                  \o ChunkQueries(code, stripped, pos, k + 1, fn)

parseMCodeFile(mCode, fn) ==
    LET code == IF At(mCode, 1) = BOM THEN Tail(mCode) ELSE mCode
        stripped == stripCS(code)
        q == ChunkQueries(code, stripped, FindDecls(stripped, 1), 1, fn)
    IN  IF q = <<>> /\ HasWord(stripped, <<"l","e","t">>) /\ HasWord(stripped, <<"i","n">>)
        THEN <<MakeQuery("Query1", Trim(mCode), fn, findDeps(stripped, "Query1"),
                         findExternalFileRefs(mCode))>>
        ELSE q

(***************************************************************************)
(* SpecM: the query source analyzer applied to bounded module texts        *)
(***************************************************************************)
\* the module text of the one-query scenario
TextOrders == "shared Orders = let Source = Sql.Database(\"s\",\"d\") in Source;"

\* the module text of the two-query scenario
TextAB == "shared A = let X = B in X;\nshared B = 1;"

\* a module text whose one query is a quoted identifier that reads as a declaration
TextQuoted == "shared A = #\"shared B = 1\";"

\* the pieces the bounded texts are built from
MTokens == {
    "shared A = ",
    "shared #\"A B\" = ",
    "A",
    "B",
    "#\"A\"",
    "#\"A B\"",
    "let Query1 in ",
    "\"",
    ";"}

\* the characters of each piece
PieceChars ==
    (TextOrders :> <<"s","h","a","r","e","d"," ","O","r","d","e","r","s"," ","="," ","l","e","t"," ",
          "S","o","u","r","c","e"," ","="," ","S","q","l",".","D","a","t","a","b","a","s",
          "e","(","\"","s","\"",",","\"","d","\"",")"," ","i","n"," ","S","o","u","r","c",
          "e",";">>) @@
    (TextAB :> <<"s","h","a","r","e","d"," ","A"," ","="," ","l","e","t"," ","X"," ","="," ","B",
          " ","i","n"," ","X",";","\n","s","h","a","r","e","d"," ","B"," ","="," ","1",";">>) @@
    (TextQuoted :> <<"s","h","a","r","e","d"," ","A"," ","="," ","#","\"","s","h","a","r","e","d",
          " ","B"," ","="," ","1","\"",";">>) @@
    ("shared A = " :> <<"s","h","a","r","e","d"," ","A"," ","="," ">>) @@
    ("shared #\"A B\" = " :> <<"s","h","a","r","e","d"," ","#","\"","A"," ","B","\""," ","="," ">>) @@
    ("A" :> <<"A">>) @@
    ("B" :> <<"B">>) @@
    ("#\"A\"" :> <<"#","\"","A","\"">>) @@
    ("#\"A B\"" :> <<"#","\"","A"," ","B","\"">>) @@
    ("let Query1 in " :> <<"l","e","t"," ","Q","u","e","r","y","1"," ","i","n"," ">>) @@
    ("\"" :> <<"\"">>) @@
    (";" :> <<";">>)

\* most pieces in one bounded text
MaxTokens == 3

RECURSIVE TokenTexts(_)
TokenTexts(n) ==
    IF n = 0 THEN {<<>>}
    ELSE LET shorter == TokenTexts(n - 1)
         IN  shorter \cup {Append(t, k) : t \in shorter, k \in MTokens}

\* the inputs: each a sequence of pieces
MTexts == {<<TextOrders>>, <<TextAB>>, <<TextQuoted>>} \cup TokenTexts(MaxTokens)

RECURSIVE TextOf(_)
\* the characters of an input
TextOf(pieces) ==
    IF pieces = <<>> THEN <<>> ELSE PieceChars[pieces[1]] \o TextOf(Tail(pieces))

\* the container file the text was read from
MFile == "book.xlsx"

\* names given to a query by the schema, data-model and connections paths
MNames == {"A", "A B", "Query1"}

IdleM == mText = <<>> /\ mSelf = "" /\ mPc = "idle" /\ mQueries = <<>>
IdleD == dBuf = "idle" /\ dPc = "idle" /\ dQ = <<>> /\ dRaised = FALSE /\ dLog = <<>>
IdleX == xIn = "idle" /\ xPc = "idle" /\ xDec = "idle" /\ xRun = "idle" /\ xOut = "idle"
IdleC == cIn = "idle" /\ cPc = "idle" /\ cOut = "idle"
IdleA == aInput = "idle" /\ aState = "idle" /\ aRuns = "idle"
IdleF == fIn = "idle" /\ fPc = "idle" /\ fOut = "idle"

InitM ==
    /\ mText \in MTexts
    /\ mSelf = ""
    /\ mPc = "input"
    /\ mQueries = <<>>
    /\ IdleD /\ IdleX /\ IdleC /\ IdleA /\ IdleF

\* a Formulas/*.m entry goes through parseMCodeFile (app.js 138)
MParseModule ==
    /\ mPc = "input"
    /\ mQueries' = parseMCodeFile(TextOf(mText), MFile)
    /\ mPc' = "module"
    /\ UNCHANGED <<mText, mSelf>>
    /\ UNCHANGED <<varsD, varsX, varsC, varsA, varsF>>

\* one named expression of the JSON schema (app.js 102, 112)
MParseExpression ==
    /\ mPc = "input"
    /\ mText # <<>>
    /\ \E name \in MNames :
          /\ mSelf' = name
          /\ mQueries' = <<MakeQuery(name, Trim(TextOf(mText)), MFile,
                                     findDeps(stripCS(TextOf(mText)), name),
                                     findExternalFileRefs(TextOf(mText)))>>
    /\ mPc' = "expression"
    /\ UNCHANGED mText
    /\ UNCHANGED <<varsD, varsX, varsC, varsA, varsF>>

\* one entry of the compressed data model (xpress9_wasm.c 489-505): the code
\* as it is stored, the name Query for an entry whose name is blank
MParseModelEntry ==
    /\ mPc = "input"
    /\ \E stored \in MNames \cup {" "} :
          LET name == IF Trim(<<stored>>) # <<>> THEN stored ELSE "Query"
          IN  /\ mSelf' = name
              /\ mQueries' = <<MakeQuery(name, TextOf(mText), MFile,
                                         findDeps(stripCS(TextOf(mText)), name),
                                         findExternalFileRefs(TextOf(mText)))>>
    /\ mPc' = "data model"
    /\ UNCHANGED mText
    /\ UNCHANGED <<varsD, varsX, varsC, varsA, varsF>>

\* a connection of the connections descriptor: a name and no source (app.js 183)
MParseConnection ==
    /\ mPc = "input"
    /\ \E name \in MNames :
          /\ mSelf' = name
          /\ mQueries' = <<[name |-> name,
                          code |-> "// Query code not available - connections.xml only",
                          fileName |-> MFile, dependencies |-> <<>>]>>
    /\ mPc' = "connections"
    /\ UNCHANGED mText
    /\ UNCHANGED <<varsD, varsX, varsC, varsA, varsF>>

NextM == MParseModule \/ MParseExpression \/ MParseModelEntry \/ MParseConnection

SpecM == InitM /\ [][NextM]_vars

(***************************************************************************)
(* Properties of the query source analyzer (SpecM)                         *)
(***************************************************************************)
\* C3: parsing the module text
\*   shared Orders = let Source = Sql.Database("s","d") in Source;
\* yields exactly one query, named Orders, whose dependency list is empty and
\* whose external-reference list is empty.
C3_OrdersNoDependencies ==
    (mPc = "module" /\ mText = <<TextOrders>>) =>
        /\ Len(mQueries) = 1
        /\ mQueries[1].name = "Orders"
        /\ mQueries[1].dependencies = <<>>
        /\ mQueries[1].externalRefs = <<>>

\* what parseMCodeFile returns for that text: the member Database of
\* Sql.Database is listed as a dependency
C3_OrdersObserved ==
    /\ mPc = "module" /\ mText = <<TextOrders>>
    /\ mQueries = <<[name |-> "Orders",
                     code |-> "let Source = Sql.Database(\"s\",\"d\") in Source",
                     fileName |-> MFile,
                     dependencies |-> <<"Database">>,
                     externalRefs |-> <<>>]>>

\* C4: parsing the two queries `shared A = let X = B in X;` and `shared B = 1;`
\* of one module yields A.dependencies = <<"B">>, the other query and nothing else.
C4_ADependsOnBOnly ==
    (mPc = "module" /\ mText = <<TextAB>>) =>
        /\ Len(mQueries) = 2
        /\ mQueries[1].name = "A"
        /\ mQueries[1].dependencies = <<"B">>

\* what parseMCodeFile returns for that text: the step name X is listed too
C4_ABObserved ==
    /\ mPc = "module" /\ mText = <<TextAB>>
    /\ Len(mQueries) = 2
    /\ mQueries[1].name = "A" /\ mQueries[1].dependencies = <<"X", "B">>
    /\ mQueries[2].name = "B" /\ mQueries[2].dependencies = <<>>

\* C5: for every query produced by any extraction path (module segmentation,
\* anonymous fallback, named expression of a schema or data model, connection),
\* the query's own name is never an element of its dependencies, whether the
\* text refers to it as a bare identifier or as a #"..." quoted identifier.
C5_NoSelfDependency ==
    \A k \in 1..Len(mQueries) :
        \A j \in 1..Len(mQueries[k].dependencies) :
            mQueries[k].dependencies[j] # mQueries[k].name

\* a query named "A B" whose text refers to itself as #"A B" and to B:
\* only B is kept
C5_QuotedSelfReference ==
    /\ mPc = "module"
    /\ mText = <<"shared #\"A B\" = ", "#\"A B\"", "B">>
    /\ Len(mQueries) = 1
    /\ mQueries[1].name = "A B"
    /\ mQueries[1].dependencies = <<"B">>

(***************************************************************************)
(* extractFromDataMashup, findPK, extractMCodeFromZip: app.js 22, 120-142  *)
(***************************************************************************)
\* a candidate buffer is pre \o (the bytes of a nested archive) \o post; zip
\* says whether the archive is there, whether it is whole, and what it holds
ZipSig == <<80, 75, 3, 4>>

ZipBytes(zip) == IF zip.has THEN ZipSig \o <<1, 1>> ELSE <<>>

BufBytes(buf) == buf.pre \o ZipBytes(buf.zip) \o buf.post

\* little-endian bytes of a 32-bit value, as the envelope stores its fields
U32(n) == <<n % 256, (n \div 256) % 256, (n \div 65536) % 256, (n \div 16777216) % 256>>

\* readU32 (app.js 22): offset o counts from 0. The fields of the buffers
\* built below keep their top byte under 128, where the unsigned value that
\* >>>0 yields is this sum
readU32(b, o) == b[o + 1] + 256 * b[o + 2] + 65536 * b[o + 3] + 16777216 * b[o + 4]

\* the four signature bytes at offset i, counted from 0
SigAt(b, i) == b[i + 1] = 80 /\ b[i + 2] = 75 /\ b[i + 3] = 3 /\ b[i + 4] = 4

RECURSIVE findPKFrom(_, _)
\* the loop of findPK from offset i on
findPKFrom(b, i) ==
    IF ~(i < Len(b) - 4) THEN -1
    ELSE IF SigAt(b, i) THEN i
    ELSE findPKFrom(b, i + 1)

\* a scan that never finds the signature
findPKNever(b) == -1

\* findPK (app.js 132): offset of the first signature, -1 when there is none
findPK(b) == findPKFrom(b, 0)

\* the test of app.js 125 on the two envelope fields
Plausible(b) ==
    LET v == readU32(b, 0)
        n == readU32(b, 4)
    IN  v = 0 /\ n > 0 /\ n <= Len(b) - 8

\* JSZip.loadAsync on the bytes from..to-1 of the buffer (offsets from 0): the
\* archive is read when the bytes hold all of it, whatever precedes or follows
\* it; otherwise the call throws
LoadAsync(buf, from, to) ==
    IF /\ buf.zip.has /\ buf.zip.complete
       /\ from <= Len(buf.pre)
       /\ Len(buf.pre) + Len(ZipBytes(buf.zip)) <= to
    THEN [threw |-> FALSE, files |-> buf.zip.files]
    ELSE [threw |-> TRUE, files |-> <<>>]

\* the characters of the entry paths
PathChars ==
    ("Formulas/Section1.m" :> <<"F","o","r","m","u","l","a","s","/","S","e","c","t","i","o","n","1",".","m">>) @@
    ("Formulas/Section2.m" :> <<"F","o","r","m","u","l","a","s","/","S","e","c","t","i","o","n","2",".","m">>) @@
    ("Formulas/Section3.m" :> <<"F","o","r","m","u","l","a","s","/","S","e","c","t","i","o","n","3",".","m">>) @@
    ("Formulas/Old.m/" :> <<"F","o","r","m","u","l","a","s","/","O","l","d",".","m","/">>) @@
    ("Config/Package.xml" :> <<"C","o","n","f","i","g","/","P","a","c","k","a","g","e",".","x","m","l">>)

StartsWith(s, lit) == Len(s) >= Len(lit) /\ SubSeq(s, 1, Len(lit)) = lit

EndsWith(s, lit) == Len(s) >= Len(lit) /\ SubSeq(s, Len(s) - Len(lit) + 1, Len(s)) = lit

\* the test of app.js 137 on one entry of the archive
IsFormulaEntry(e) ==
    /\ StartsWith(PathChars[e.path], <<"F","o","r","m","u","l","a","s","/">>)
    /\ EndsWith(PathChars[e.path], <<".","m">>)
    /\ ~e.dir

\* the key of the seen set (app.js 27, 138)
QKey(x) == x.fileName \o "::" \o x.name

RECURSIVE AddUnseen(_, _)
\* the queries nq added to q, those whose key is already there left out
AddUnseen(q, nq) ==
    IF nq = <<>> THEN q
    ELSE IF \E k \in 1..Len(q) : QKey(q[k]) = QKey(nq[1]) THEN AddUnseen(q, Tail(nq))
    ELSE AddUnseen(Append(q, nq[1]), Tail(nq))

\* no catch
CatchesNothing == FALSE

\* the empty catch of app.js 138 around the reading of one entry
CatchesEntryError == TRUE

\* the catch of app.js 126 around the structured attempt
CatchesStructuredError == TRUE

\* the catch of app.js 128 around the attempt at the scanned signature
CatchesScanError == TRUE

RECURSIVE extractMCodeFromZip(_, _, _, _)
\* extractMCodeFromZip (app.js 134-142) from entry k on, q the queries so far:
\* an entry whose content cannot be read is skipped
extractMCodeFromZip(files, k, fn, q) ==
    IF k > Len(files) THEN [threw |-> FALSE, q |-> q]
    ELSE IF ~IsFormulaEntry(files[k]) THEN extractMCodeFromZip(files, k + 1, fn, q)
    ELSE IF ~files[k].readable
         THEN IF CatchesEntryError THEN extractMCodeFromZip(files, k + 1, fn, q)
              ELSE [threw |-> TRUE, q |-> <<>>]
    ELSE extractMCodeFromZip(files, k + 1, fn,
                             AddUnseen(q, parseMCodeFile(TextOf(files[k].text), fn)))

\* await extractMCodeFromZip(await JSZip.loadAsync(b.slice(from, to)), fn)
LoadAndExtract(buf, from, to, fn) ==
    LET z == LoadAsync(buf, from, to)
    IN  IF z.threw THEN [threw |-> TRUE, q |-> <<>>]
        ELSE extractMCodeFromZip(z.files, 1, fn, <<>>)

(***************************************************************************)
(* SpecMashup: extractFromDataMashup applied to bounded candidate buffers  *)
(***************************************************************************)
\* most entries in one nested archive
MaxEntries == 2

\* the entries an archive is built from: two query sources, one whose content
\* cannot be read, a directory, and an entry outside Formulas/
DEntries == {
    [path |-> "Formulas/Section1.m", dir |-> FALSE, readable |-> TRUE, text |-> <<TextAB>>],
    [path |-> "Formulas/Section2.m", dir |-> FALSE, readable |-> TRUE, text |-> <<"shared A = ", "B">>],
    [path |-> "Formulas/Section3.m", dir |-> FALSE, readable |-> FALSE, text |-> <<>>],
    [path |-> "Formulas/Old.m/", dir |-> TRUE, readable |-> TRUE, text |-> <<>>],
    [path |-> "Config/Package.xml", dir |-> FALSE, readable |-> TRUE, text |-> <<"shared B = ", "A">>]}

RECURSIVE EntryLists(_)
EntryLists(n) ==
    IF n = 0 THEN {<<>>}
    ELSE LET shorter == EntryLists(n - 1)
         IN  shorter \cup {Append(t, e) : t \in shorter, e \in DEntries}

\* no archive, an archive that cannot be read, and the readable archives
DZips ==
    {[has |-> FALSE, complete |-> FALSE, files |-> <<>>],
     [has |-> TRUE, complete |-> FALSE, files |-> <<>>]}
    \cup {[has |-> TRUE, complete |-> TRUE, files |-> f] : f \in EntryLists(MaxEntries)}

\* values of the version and length fields of the envelope
DVersions == {0, 1}

DLengths == {0, 5, 6, 10, 2147483647}

\* bytes between the envelope and the archive: none, zeros, a signature that
\* starts no archive, half a signature
DPads == {<<>>, <<0, 0, 0, 0>>, <<80, 75, 3, 4>>, <<80, 75, 0, 0>>}

\* what precedes the archive: less than an envelope, or an envelope and a pad
DPres ==
    {<<>>, <<0, 0, 0>>}
    \cup {U32(v) \o U32(n) \o p : v \in DVersions, n \in DLengths, p \in DPads}

\* what follows the archive
DPosts == {<<>>, <<0, 0, 0, 0>>}

InitD ==
    /\ dBuf \in [pre : DPres, zip : DZips, post : DPosts]
    /\ dPc = "input"
    /\ dQ = <<>>
    /\ dRaised = FALSE
    /\ dLog = <<>>
    /\ IdleM /\ IdleX /\ IdleC /\ IdleA /\ IdleF

\* app.js 121-122: a buffer shorter than the envelope returns the empty list
DEnter ==
    /\ dPc = "input"
    /\ IF Len(BufBytes(dBuf)) < 8
       THEN /\ dPc' = "done"
            /\ dLog' = Append(dLog, [stage |-> "length", at |-> 0, result |-> "short"])
       ELSE /\ dPc' = "structured"
            /\ dLog' = dLog
    /\ UNCHANGED <<dBuf, dQ, dRaised>>
    /\ UNCHANGED <<varsM, varsX, varsC, varsA, varsF>>

\* app.js 124-126: the archive of the envelope, when the envelope is plausible
DStructured ==
    /\ dPc = "structured"
    /\ LET b == BufBytes(dBuf)
           n == readU32(b, 4)
           r == LoadAndExtract(dBuf, 8, 8 + n, MFile)
           note(res) == Append(dLog, [stage |-> "structured", at |-> 8, result |-> res])
       IN  IF ~Plausible(b)
           THEN dQ' = dQ /\ dRaised' = dRaised /\ dPc' = "fallback" /\ dLog' = note("implausible")
           ELSE IF r.threw /\ ~CatchesStructuredError
           THEN dQ' = dQ /\ dRaised' = TRUE /\ dPc' = "done" /\ dLog' = note("raised")
           ELSE IF r.threw
           THEN dQ' = dQ /\ dRaised' = dRaised /\ dPc' = "fallback" /\ dLog' = note("unreadable")
           ELSE dQ' = dQ \o r.q /\ dRaised' = dRaised /\ dPc' = "fallback" /\ dLog' = note("ok")
    /\ UNCHANGED dBuf
    /\ UNCHANGED <<varsM, varsX, varsC, varsA, varsF>>

\* app.js 127-129: with no query so far, the archive at the first signature
DFallback ==
    /\ dPc = "fallback"
    /\ LET b == BufBytes(dBuf)
           s == findPK(b)
           r == LoadAndExtract(dBuf, s, Len(b), MFile)
           note(res) == Append(dLog, [stage |-> "scan", at |-> s, result |-> res])
       IN  IF dQ # <<>>
           THEN dQ' = dQ /\ dRaised' = dRaised /\ dLog' = dLog
           ELSE IF s < 0
           THEN dQ' = dQ /\ dRaised' = dRaised /\ dLog' = note("no signature")
           ELSE IF r.threw /\ ~CatchesScanError
           THEN dQ' = dQ /\ dRaised' = TRUE /\ dLog' = note("raised")
           ELSE IF r.threw
           THEN dQ' = dQ /\ dRaised' = dRaised /\ dLog' = note("unreadable")
           ELSE dQ' = dQ \o r.q /\ dRaised' = dRaised /\ dLog' = note("ok")
    /\ dPc' = "done"
    /\ UNCHANGED dBuf
    /\ UNCHANGED <<varsM, varsX, varsC, varsA, varsF>>

NextD == DEnter \/ DStructured \/ DFallback

SpecMashup == InitD /\ [][NextD]_vars

(***************************************************************************)
(* Properties of extractFromDataMashup (SpecMashup)                        *)
(***************************************************************************)
\* the envelope of an 8-byte-or-longer buffer is malformed: version not zero,
\* or length zero, or length larger than what follows the 8-byte header
Malformed(b) ==
    /\ Len(b) >= 8
    /\ \/ readU32(b, 0) # 0
       \/ readU32(b, 4) = 0
       \/ readU32(b, 4) > Len(b) - 8

\* the buffer holds a whole archive past the envelope, and no signature
\* precedes the one that starts it
ArchiveAtFirstSignature ==
    /\ dBuf.zip.has /\ dBuf.zip.complete
    /\ Len(dBuf.pre) >= 8
    /\ \A i \in 0..(Len(dBuf.pre) - 1) : ~SigAt(BufBytes(dBuf), i)

\* C6: given a buffer whose envelope is malformed and which holds a valid
\* nested archive further on, the signature that starts it being the first
\* signature of the buffer, extractFromDataMashup falls back to the signature
\* scan, parses the archive from that first match and returns its queries.
C6_MalformedEnvelopeFallsBackToScan ==
    (dPc = "done" /\ Malformed(BufBytes(dBuf)) /\ ArchiveAtFirstSignature) =>
        /\ ~dRaised
        /\ dLog = <<[stage |-> "structured", at |-> 8, result |-> "implausible"],
                    [stage |-> "scan", at |-> Len(dBuf.pre), result |-> "ok"]>>
        /\ dQ = extractMCodeFromZip(dBuf.zip.files, 1, MFile, <<>>).q

\* the length field exceeds the buffer, the archive starts at offset 12 and
\* holds the two queries A and B: both are returned
C6_ScanAtOffset12 ==
    /\ dPc = "done"
    /\ dBuf.pre = U32(0) \o U32(2147483647) \o <<0, 0, 0, 0>>
    /\ dBuf.zip.has /\ dBuf.zip.complete
    /\ dBuf.zip.files = <<[path |-> "Formulas/Section1.m", dir |-> FALSE,
                           readable |-> TRUE, text |-> <<TextAB>>]>>
    /\ Len(dLog) = 2 /\ dLog[2].at = 12 /\ dLog[2].result = "ok"
    /\ Len(dQ) = 2 /\ dQ[1].name = "A" /\ dQ[2].name = "B"

\* some stage of the finished call failed: short buffer, implausible envelope,
\* unreadable nested archive, no signature, or an unreadable query source
StageFailed ==
    \/ \E k \in 1..Len(dLog) :
          dLog[k].result \in {"short", "implausible", "unreadable", "no signature"}
    \/ /\ \E k \in 1..Len(dLog) : dLog[k].result = "ok"
       /\ \E k \in 1..Len(dBuf.zip.files) :
             IsFormulaEntry(dBuf.zip.files[k]) /\ ~dBuf.zip.files[k].readable

\* some attempt of the finished call read the nested archive
StageSucceeded == \E k \in 1..Len(dLog) : dLog[k].result = "ok"

RECURSIVE ReadableQueries(_, _, _)
\* the queries of the query sources of an archive whose content can be read
ReadableQueries(files, k, q) ==
    IF k > Len(files) THEN q
    ELSE IF IsFormulaEntry(files[k]) /\ files[k].readable
    THEN ReadableQueries(files, k + 1,
                         AddUnseen(q, parseMCodeFile(TextOf(files[k].text), MFile)))
    ELSE ReadableQueries(files, k + 1, q)

\* C7 as stated: extractFromDataMashup never raises, and a failure at any
\* stage results in an empty query list being returned.
C7_AnyFailureReturnsEmpty ==
    /\ ~dRaised
    /\ (dPc = "done" /\ StageFailed) => dQ = <<>>

\* C7 as the code has it: extractFromDataMashup never raises; a stage that
\* fails adds no query, so the list returned is empty when no attempt read the
\* nested archive, and otherwise holds the queries of the readable query
\* sources of the archive, an unreadable source adding none.
C7_NeverRaisesFailedStagesAddNothing ==
    /\ ~dRaised
    /\ (dPc = "done" /\ ~StageSucceeded) => dQ = <<>>
    /\ (dPc = "done" /\ StageSucceeded) => dQ = ReadableQueries(dBuf.zip.files, 1, <<>>)

\* a plausible envelope whose archive cannot be read, and a scan that finds
\* its signature and cannot read it either: nothing raised, nothing returned
C7_BothAttemptsFail ==
    /\ dPc = "done"
    /\ ~dRaised
    /\ Len(dLog) = 2
    /\ dLog[1].result = "unreadable"
    /\ dLog[2].result = "unreadable"
    /\ dQ = <<>>

(***************************************************************************)
(* The decoder wrapper and decompressXpress9: xpress9_wasm.c 28-72, 95-175 *)
(***************************************************************************)
\* g_decoder (xpress9_wasm.c 28): ctx is 0 for NULL, else the number of the
\* context Xpress9DecoderCreate returned; made counts the contexts created
NoDecoder == [ctx |-> 0, session |-> "none", made |-> 0]

\* what Xpress9DecoderCreate can report: no context, a context with a status
\* that is not OK, a context with status OK
CreateOutcomes == {"null", "bad", "ok"}

\* xpress9_init (xpress9_wasm.c 30-39): the decoder after the call and the
\* value returned; start tells whether Xpress9DecoderStartSession reports OK
xpress9_init(dec, create, start) ==
    IF dec.ctx # 0 THEN [dec |-> dec, ret |-> 1]
    ELSE IF create = "null" THEN [dec |-> dec, ret |-> 0]
    ELSE IF create = "bad"
    THEN [dec |-> [ctx |-> dec.made + 1, session |-> "none", made |-> dec.made + 1], ret |-> 0]
    ELSE [dec |-> [ctx |-> dec.made + 1,
                   session |-> IF start THEN "started" ELSE "failed",
                   made |-> dec.made + 1],
          ret |-> IF start THEN 1 ELSE 0]

\* a release that leaves g_decoder as it is
xpress9_keep(dec) == dec

\* xpress9_free (xpress9_wasm.c 65-72)
xpress9_free(dec) ==
    IF dec.ctx # 0 THEN [dec EXCEPT !.ctx = 0, !.session = "none"] ELSE dec

\* the thread groups of a multi-threaded stream (xpress9_wasm.c 122-124)
Groups(in) ==
    [t \in 1..in.prefixThreads |-> in.prefixChunks] \o [t \in 1..in.mainThreads |-> in.mainChunks]

\* decompressBlock (xpress9_wasm.c 154-175) on a block of the given kind: an
\* empty block is stepped over; any other goes through xpress9_decompress
\* with the decoder of the moment, and adds a chunk when that returns bytes
decompressBlock(out, kind, group, dec) ==
    IF kind = "empty" THEN out
    ELSE [out EXCEPT !.log = Append(@, [group |-> group, ctx |-> dec.ctx, session |-> dec.session]),
                     !.chunks = IF dec.ctx # 0 /\ dec.session = "started" THEN @ + 1 ELSE @]

(***************************************************************************)
(* SpecX9: calls of decompressXpress9, one after the other                 *)
(***************************************************************************)
\* most calls of decompressXpress9
MaxCalls == 2

\* most threads of either kind, most blocks a thread is declared to hold
MaxThreads == 1

MaxChunks == 2

\* most blocks in a stream
MaxBlocks == 2

RECURSIVE BlockLists(_)
BlockLists(n) ==
    IF n = 0 THEN {<<>>}
    ELSE LET shorter == BlockLists(n - 1)
         IN  shorter \cup {Append(t, k) : t \in shorter, k \in {"data", "empty"}}

\* the streams: framing mode, the thread metadata and the blocks that follow
XInputs ==
    [multi : {TRUE}, prefixThreads : 0..MaxThreads, prefixChunks : 0..MaxChunks,
     mainThreads : 0..MaxThreads, mainChunks : 0..MaxChunks, blocks : BlockLists(MaxBlocks)]
    \cup [multi : {FALSE}, prefixThreads : {0}, prefixChunks : {0},
          mainThreads : {0}, mainChunks : {0}, blocks : BlockLists(MaxBlocks)]

NoInput ==
    [multi |-> FALSE, prefixThreads |-> 0, prefixChunks |-> 0, mainThreads |-> 0,
     mainChunks |-> 0, blocks |-> <<>>]

\* the locals of a call that has not started or is over
NoRun(calls) == [call |-> calls, group |-> 0, left |-> 0, off |-> 1, base |-> 0]

NoOutput == [log |-> <<>>, chunks |-> 0]

\* the call is left, by return or by throw: its locals are gone
LeaveCall == xIn' = NoInput /\ xRun' = NoRun(xRun.call) /\ xOut' = NoOutput

InitX ==
    /\ xIn = NoInput
    /\ xPc = "ready"
    /\ xDec = NoDecoder
    /\ xRun = NoRun(0)
    /\ xOut = NoOutput
    /\ IdleM /\ IdleD /\ IdleC /\ IdleA /\ IdleF

\* a call starts, the first or one after an earlier call has finished:
\* signature and metadata are read (xpress9_wasm.c 95-120)
XCall ==
    /\ xPc \in {"ready", "returned", "threw"}
    /\ xRun.call < MaxCalls
    /\ \E in \in XInputs :
          /\ xIn' = in
          /\ xPc' = IF in.multi THEN "groups" ELSE "single init"
    /\ xRun' = [call |-> xRun.call + 1, group |-> 1, left |-> 0, off |-> 1, base |-> xDec.made]
    /\ xOut' = NoOutput
    /\ UNCHANGED xDec
    /\ UNCHANGED <<varsM, varsD, varsC, varsA, varsF>>

\* the head of the loop over the groups (xpress9_wasm.c 126-129): release,
\* then init, and the call throws when init returns 0
XGroupInit ==
    /\ xPc = "groups"
    /\ xRun.group <= Len(Groups(xIn))
    /\ \E create \in CreateOutcomes, start \in BOOLEAN :
          LET r == xpress9_init(xpress9_free(xDec), create, start)
          IN  /\ xDec' = r.dec
              /\ IF r.ret = 0
                 THEN xPc' = "threw" /\ LeaveCall
                 ELSE /\ xPc' = "blocks"
                      /\ xRun' = [xRun EXCEPT !.left = Groups(xIn)[xRun.group]]
                      /\ UNCHANGED <<xIn, xOut>>
    /\ UNCHANGED <<varsM, varsD, varsC, varsA, varsF>>

\* one block of the group of the moment (xpress9_wasm.c 130-132)
XGroupBlock ==
    /\ xPc = "blocks"
    /\ xRun.left > 0 /\ xRun.off <= Len(xIn.blocks)
    /\ xOut' = decompressBlock(xOut, xIn.blocks[xRun.off], xRun.group, xDec)
    /\ xRun' = [xRun EXCEPT !.left = @ - 1, !.off = @ + 1]
    /\ UNCHANGED <<xIn, xPc, xDec>>
    /\ UNCHANGED <<varsM, varsD, varsC, varsA, varsF>>

\* the group has no block left, or the stream has none
XGroupEnd ==
    /\ xPc = "blocks"
    /\ ~(xRun.left > 0 /\ xRun.off <= Len(xIn.blocks))
    /\ xRun' = [xRun EXCEPT !.group = @ + 1, !.left = 0]
    /\ xPc' = "groups"
    /\ UNCHANGED <<xIn, xDec, xOut>>
    /\ UNCHANGED <<varsM, varsD, varsC, varsA, varsF>>

\* every group is done
XGroupsDone ==
    /\ xPc = "groups"
    /\ xRun.group > Len(Groups(xIn))
    /\ xPc' = "finish"
    /\ UNCHANGED <<xIn, xDec, xRun, xOut>>
    /\ UNCHANGED <<varsM, varsD, varsC, varsA, varsF>>

\* single-threaded framing: init without a release before it (xpress9_wasm.c 135)
XSingleInit ==
    /\ xPc = "single init"
    /\ \E create \in CreateOutcomes, start \in BOOLEAN :
          LET r == xpress9_init(xDec, create, start)
          IN  /\ xDec' = r.dec
              /\ IF r.ret = 0
                 THEN xPc' = "threw" /\ LeaveCall
                 ELSE xPc' = "single" /\ UNCHANGED <<xIn, xRun, xOut>>
    /\ UNCHANGED <<varsM, varsD, varsC, varsA, varsF>>

\* one block of the sequential loop (xpress9_wasm.c 137-141)
XSingleBlock ==
    /\ xPc = "single"
    /\ xRun.off <= Len(xIn.blocks)
    /\ xOut' = decompressBlock(xOut, xIn.blocks[xRun.off], 0, xDec)
    /\ xRun' = [xRun EXCEPT !.off = @ + 1]
    /\ UNCHANGED <<xIn, xPc, xDec>>
    /\ UNCHANGED <<varsM, varsD, varsC, varsA, varsF>>

XSingleDone ==
    /\ xPc = "single"
    /\ xRun.off > Len(xIn.blocks)
    /\ xPc' = "finish"
    /\ UNCHANGED <<xIn, xDec, xRun, xOut>>
    /\ UNCHANGED <<varsM, varsD, varsC, varsA, varsF>>

\* the release after the loops, then the chunks are returned (xpress9_wasm.c 144-151)
XFinish ==
    /\ xPc = "finish"
    /\ xDec' = xpress9_free(xDec)
    /\ xPc' = "returned"
    /\ LeaveCall
    /\ UNCHANGED <<varsM, varsD, varsC, varsA, varsF>>

NextX ==
    \/ XCall \/ XGroupInit \/ XGroupBlock \/ XGroupEnd \/ XGroupsDone
    \/ XSingleInit \/ XSingleBlock \/ XSingleDone \/ XFinish

SpecX9 == InitX /\ [][NextX]_vars

(***************************************************************************)
(* Properties of decompressXpress9 (SpecX9)                                *)
(***************************************************************************)
\* C8: in multi-threaded framing a fresh decoder session is created at the
\* start of every thread group: every block is decompressed by a started
\* session of a context created in this call, and no two blocks of different
\* groups are decompressed by the same context.
C8_FreshSessionPerGroup ==
    xIn.multi =>
        /\ \A i \in 1..Len(xOut.log) :
              /\ xOut.log[i].ctx > xRun.base
              /\ xOut.log[i].session = "started"
        /\ \A i, j \in 1..Len(xOut.log) :
              xOut.log[i].group # xOut.log[j].group => xOut.log[i].ctx # xOut.log[j].ctx

\* a multi-threaded call about to return that has decompressed a block of its prefix group
\* and a block of its main group, by two contexts
C8_TwoGroupsTwoSessions ==
    /\ xIn.multi
    /\ xPc = "finish"
    /\ Len(xOut.log) = 2
    /\ xOut.log[1].group = 1 /\ xOut.log[2].group = 2
    /\ xOut.log[1].ctx # xOut.log[2].ctx

\* C9: whenever a call of decompressXpress9 has finished, in either framing
\* mode and whether it returned a buffer or threw, no decoder context remains
\* allocated.
C9_NoDecoderAfterCall ==
    xPc \in {"returned", "threw"} => xDec.ctx = 0

\* a call that threw and left a context whose session did not start
C9_ThrewWithContextLeft ==
    xPc = "threw" /\ xDec.ctx # 0 /\ xDec.session = "failed"

\* a later single-threaded call that decompressed a block with a context an
\* earlier call had created
C9_BlockOnLeftOverContext ==
    /\ ~xIn.multi
    /\ Len(xOut.log) > 0
    /\ xOut.log[1].ctx # 0
    /\ xOut.log[1].ctx <= xRun.base

(***************************************************************************)
(* The column value decoder: app.js 1096-1110, 1418-1472, 1483-1531        *)
(***************************************************************************)
\* a column descriptor names its storage files; each file is "ok", "missing"
\* from the container, or there and "corrupt" (reading it throws); dict is
\* "none" for a column that declares no dictionary
Num(v) == [k |-> "num", v |-> v]

Null == [k |-> "null", v |-> 0]

\* the ids decodeRleBitPackedHybrid yields for a readable value-index file
Indices == <<Num(50), Num(51), Num(53)>>

\* the dictionary of a column, by its type code: id -> value from minDataId 50
DictOf(dataType) ==
    IF dataType = 9 THEN (50 :> 25569) @@ (51 :> 25570)
    ELSE IF dataType = 10 THEN (50 :> 10000) @@ (51 :> 20000)
    ELSE (50 :> 10) @@ (51 :> 20) @@ (52 :> 30)

\* convertColumnValue (app.js 1418-1425); the values above divide exactly
convertColumnValue(value, dataType) ==
    IF dataType = 9 THEN [k |-> "date", v |-> (value - 25569) * 86400000]
    ELSE IF dataType = 10 THEN Num(value \div 10000)
    ELSE Num(value)

\* the names _buildFileCache asks for and finds (app.js 1096-1110)
CachedFiles(cols) ==
    LET ks == 1..Len(cols)
    IN       {<<cols[k].name, "idf">> : k \in {j \in ks : cols[j].idf # "missing"}}
        \cup {<<cols[k].name, "idfmeta">> : k \in {j \in ks : cols[j].meta # "missing"}}
        \cup {<<cols[k].name, "dictionary">> :
                 k \in {j \in ks : cols[j].dict \notin {"none", "missing"}}}

\* _extractColumn (app.js 1427-1454): null, the values, or a throw of the
\* index decode, which no try encloses
extractColumn(col, cache) ==
    IF <<col.name, "idfmeta">> \notin cache \/ col.meta = "corrupt"
    THEN [threw |-> FALSE, null |-> TRUE, values |-> <<>>]
    ELSE IF <<col.name, "idf">> \notin cache
    THEN [threw |-> FALSE, null |-> TRUE, values |-> <<>>]
    ELSE IF col.idf = "corrupt"
    THEN [threw |-> TRUE, null |-> FALSE, values |-> <<>>]
    ELSE IF col.dict # "none"
    THEN IF <<col.name, "dictionary">> \notin cache
         THEN [threw |-> FALSE, null |-> FALSE, values |-> Indices]
         ELSE IF col.dict = "corrupt" THEN [threw |-> FALSE, null |-> FALSE, values |-> Indices]
         ELSE [threw |-> FALSE, null |-> FALSE,
               values |-> [i \in 1..Len(Indices) |->
                              IF Indices[i].v \in DOMAIN DictOf(col.dataType)
                              THEN convertColumnValue(DictOf(col.dataType)[Indices[i].v], col.dataType)
                              ELSE Null]]
    ELSE IF col.hidx
    THEN [threw |-> FALSE, null |-> FALSE,
          values |-> [i \in 1..Len(Indices) |->
                         convertColumnValue((Indices[i].v + col.baseId) \div col.magnitude,
                                            col.dataType)]]
    ELSE [threw |-> FALSE, null |-> FALSE, values |-> Indices]

(***************************************************************************)
(* SpecCol: the decoding of one table of bounded column descriptors        *)
(***************************************************************************)
\* most columns in the table
MaxColumns == 2

ColNames == <<"c1", "c2", "c3", "c4">>

\* the shapes of a column: how it resolves its ids, its type code, and the
\* state of its three storage files
ColShapes ==
    {[hidx |-> FALSE, dataType |-> t, meta |-> "ok", idf |-> "ok", dict |-> "ok"] : t \in {2, 9, 10}}
    \cup {[hidx |-> FALSE, dataType |-> 2, meta |-> "ok", idf |-> "ok", dict |-> d] :
             d \in {"missing", "corrupt", "none"}}
    \cup {[hidx |-> TRUE, dataType |-> 2, meta |-> "ok", idf |-> "ok", dict |-> "none"]}
    \cup {[hidx |-> FALSE, dataType |-> 2, meta |-> s, idf |-> "ok", dict |-> "ok"] :
             s \in {"missing", "corrupt"}}
    \cup {[hidx |-> FALSE, dataType |-> 2, meta |-> "ok", idf |-> s, dict |-> "ok"] :
             s \in {"missing", "corrupt"}}

RECURSIVE ShapeLists(_)
ShapeLists(n) ==
    IF n = 0 THEN {<<>>}
    ELSE LET shorter == ShapeLists(n - 1)
         IN  shorter \cup {Append(t, s) : t \in shorter, s \in ColShapes}

\* the column descriptors of a table, named by position
Describe(shapes) ==
    [k \in 1..Len(shapes) |->
        [name |-> ColNames[k], hidx |-> shapes[k].hidx, dataType |-> shapes[k].dataType,
         baseId |-> 0, magnitude |-> 1,
         meta |-> shapes[k].meta, idf |-> shapes[k].idf, dict |-> shapes[k].dict]]

CTables == {Describe(s) : s \in ShapeLists(MaxColumns)}

InitC ==
    /\ cIn \in CTables
    /\ cPc = "input"
    /\ cOut = [cache |-> {}, next |-> 1, columns |-> <<>>, columnData |-> <<>>,
               rowCount |-> 0, sheets |-> 0]
    /\ IdleM /\ IdleD /\ IdleX /\ IdleA /\ IdleF

\* _buildFileCache (app.js 1096-1110, called at 1496)
CBuildCache ==
    /\ cPc = "input"
    /\ cOut' = [cOut EXCEPT !.cache = CachedFiles(cIn)]
    /\ cPc' = "columns"
    /\ UNCHANGED cIn
    /\ UNCHANGED <<varsM, varsD, varsX, varsA, varsF>>

\* one turn of the loop of extractTableData (app.js 1463-1468); a throw of
\* _extractColumn leaves extractTableData and the table is skipped (app.js 1527)
CExtractColumn ==
    /\ cPc = "columns"
    /\ cOut.next <= Len(cIn)
    /\ LET col == cIn[cOut.next]
           r == extractColumn(col, cOut.cache)
       IN  IF r.threw
           THEN cPc' = "table skipped" /\ cOut' = cOut
           ELSE /\ cPc' = cPc
                /\ cOut' = IF r.null THEN [cOut EXCEPT !.next = @ + 1]
                           ELSE [cOut EXCEPT !.next = @ + 1,
                                             !.columns = Append(@, col.name),
                                             !.columnData = Append(@, r.values)]
    /\ UNCHANGED cIn
    /\ UNCHANGED <<varsM, varsD, varsX, varsA, varsF>>

\* the longest column
RowCount(columnData) ==
    IF columnData = <<>> THEN 0
    ELSE CHOOSE n \in {Len(columnData[k]) : k \in 1..Len(columnData)} :
            \A k \in 1..Len(columnData) : Len(columnData[k]) <= n

\* extractTableData returns (app.js 1470-1471); a table with no column gives
\* no sheet (app.js 1504), any other gives one (app.js 1519-1526)
CReturnTable ==
    /\ cPc = "columns"
    /\ cOut.next > Len(cIn)
    /\ cOut' = [cOut EXCEPT !.rowCount = RowCount(cOut.columnData),
                            !.sheets = IF cOut.columns = <<>> THEN 0 ELSE 1]
    /\ cPc' = "returned"
    /\ UNCHANGED cIn
    /\ UNCHANGED <<varsM, varsD, varsX, varsA, varsF>>

NextC == CBuildCache \/ CExtractColumn \/ CReturnTable

SpecCol == InitC /\ [][NextC]_vars

(***************************************************************************)
(* Properties of the column value decoder (SpecCol)                        *)
(***************************************************************************)
\* the names in the column list of the table
ColumnSet == {cOut.columns[k] : k \in 1..Len(cOut.columns)}

\* the column declares a dictionary that the container does not hold
DictionaryMissing(col) == col.dict = "missing"

\* C10: when a column's dictionary file is missing from the container, that
\* column is dropped from the column list of its decoded table, while the
\* other columns of the table are still decoded and returned.
C10_MissingDictionaryDropsColumn ==
    cPc = "returned" =>
        \A k \in 1..Len(cIn) :
            /\ DictionaryMissing(cIn[k]) => cIn[k].name \notin ColumnSet
            /\ (cIn[k].meta = "ok" /\ cIn[k].idf = "ok" /\ ~DictionaryMissing(cIn[k]))
                  => cIn[k].name \in ColumnSet

\* a returned table whose first column lacks its dictionary file and whose
\* second column resolves: both are in the column list, the first with the
\* ids of its value index in place of values
C10_RawIdsKept ==
    /\ cPc = "returned"
    /\ Len(cIn) = 2
    /\ DictionaryMissing(cIn[1]) /\ cIn[2].dict = "ok" /\ cIn[2].dataType = 2
    /\ cOut.columns = <<"c1", "c2">>
    /\ cOut.columnData = <<<<Num(50), Num(51), Num(53)>>, <<Num(10), Num(20), Null>>>>
    /\ cOut.sheets = 1

\* reading the column's value index or its dictionary throws
ReadThrows(col) ==
    \/ col.meta = "ok" /\ col.idf = "corrupt"
    \/ col.meta = "ok" /\ col.idf = "ok" /\ col.dict = "corrupt"

\* C11: when reading a column's value-index file or its dictionary file
\* throws, only that column is affected: the error does not leave the table
\* decode, and the table and its other columns are still returned.
C11_ColumnErrorStaysInColumn ==
    /\ cPc # "table skipped"
    /\ cPc = "returned" =>
           \A k \in 1..Len(cIn) :
               (cIn[k].meta = "ok" /\ cIn[k].idf = "ok") => cIn[k].name \in ColumnSet

\* a table whose first column decodes and whose second column has a value
\* index that cannot be read: the throw leaves extractTableData and the table
\* gives no sheet, its first column included
C11_IndexThrowSkipsTable ==
    /\ cPc = "table skipped"
    /\ Len(cIn) = 2
    /\ cIn[1].meta = "ok" /\ cIn[1].idf = "ok" /\ cIn[1].dict = "ok"
    /\ cIn[2].idf = "corrupt" /\ ReadThrows(cIn[2])
    /\ cOut.columns = <<"c1">>
    /\ cOut.sheets = 0

\* a dictionary that cannot be read costs the column its values only: the
\* table is returned with the ids of the value index in their place
C11_DictionaryThrowKeepsIds ==
    /\ cPc = "returned"
    /\ Len(cIn) = 2
    /\ cIn[1].dict = "corrupt" /\ ReadThrows(cIn[1])
    /\ cIn[2].dict = "ok" /\ cIn[2].dataType = 2
    /\ cOut.columns = <<"c1", "c2">>
    /\ cOut.columnData[1] = Indices
    /\ cOut.sheets = 1

(***************************************************************************)
(* The application: parseXlsxFile, parsePbixFile, processFiles, resetApp,  *)
(* uniqFiles and the two input handlers: app.js 9, 17, 24-80, 429-566      *)
(***************************************************************************)
MAX_FILE_SIZE == 157286400

\* the characters of the file names
NameChars ==
    ("r.xlsx" :> <<"r",".","x","l","s","x">>) @@
    ("s.xlsx" :> <<"s",".","x","l","s","x">>) @@
    ("m.pbix" :> <<"m",".","p","b","i","x">>) @@
    ("notes.txt" :> <<"n","o","t","e","s",".","t","x","t">>)

LowerName(name) == [k \in 1..Len(NameChars[name]) |-> LowerOf(NameChars[name][k])]

\* isPbixFile: /\.pbi[xt]$/i (app.js 117)
isPbixFile(name) ==
    \/ EndsWith(LowerName(name), <<".", "p", "b", "i", "x">>)
    \/ EndsWith(LowerName(name), <<".", "p", "b", "i", "t">>)

\* isSupportedFile: /\.(xlsx|pbi[xt])$/i (app.js 118)
isSupportedFile(name) ==
    EndsWith(LowerName(name), <<".", "x", "l", "s", "x">>) \/ isPbixFile(name)

\* a query record as the application keys it; the other fields are those of
\* MakeQuery and play no part here
QueryOf(name, fn) == [name |-> name, fileName |-> fn]

QueriesOf(names, fn) == [k \in 1..Len(names) |-> QueryOf(names[k], fn)]

\* what a container holds, by kind. zip: JSZip can open it. bins: the query
\* names extractFromDataMashup returns for each customXml/*.bin part (for a
\* package file, for its DataMashup entry); items: the same for each
\* customXml/item*.xml part; conn, schema, model: the connections descriptor,
\* the JSON schema and the compressed data model, each absent, throwing when
\* read, or yielding names. failed marks a container in which an extraction
\* attempt failed and was swallowed.
Absent == [has |-> FALSE, throws |-> FALSE, names |-> <<>>]

Throws == [has |-> TRUE, throws |-> TRUE, names |-> <<>>]

Yields(names) == [has |-> TRUE, throws |-> FALSE, names |-> names]

Holds(zip, bins, items, conn, schema, model, sheets, failed) ==
    [zip |-> zip, bins |-> bins, items |-> items, conn |-> conn, schema |-> schema,
     model |-> model, sheets |-> sheets, failed |-> failed]

AContents ==
    ("one" :> Holds(TRUE, <<<<"Orders">>>>, <<>>, Absent, Absent, Absent, <<"Sheet1">>, FALSE)) @@
    ("dup" :> Holds(TRUE, <<<<"Orders">>>>, <<<<"Orders", "Customers">>>>, Yields(<<"Orders">>),
                    Absent, Absent, <<"Sheet1">>, FALSE)) @@
    ("conn" :> Holds(TRUE, <<>>, <<>>, Yields(<<"Orders">>), Absent, Absent, <<"Sheet1">>, FALSE)) @@
    ("empty" :> Holds(TRUE, <<>>, <<>>, Absent, Absent, Absent, <<"Sheet1">>, FALSE)) @@
    ("corrupt" :> Holds(TRUE, <<<<>>>>, <<>>, Absent, Absent, Absent, <<"Sheet1">>, TRUE)) @@
    ("notzip" :> Holds(FALSE, <<>>, <<>>, Absent, Absent, Absent, <<>>, TRUE)) @@
    ("mashup" :> Holds(TRUE, <<<<"Orders">>>>, <<>>, Absent, Yields(<<"Sales">>), Absent, <<>>, FALSE)) @@
    ("schema" :> Holds(TRUE, <<>>, <<>>, Absent, Throws, Absent, <<"Sales">>, TRUE))

RECURSIVE AddAll(_, _, _)
\* addUnique over the results of several parts (app.js 27, 52)
AddAll(q, parts, fn) ==
    IF parts = <<>> THEN q
    ELSE AddAll(AddUnseen(q, QueriesOf(parts[1], fn)), Tail(parts), fn)

\* parseXlsxFile (app.js 24-47)
parseXlsxFile(file) ==
    LET c == AContents[file.kind]
        q == AddAll(AddAll(<<>>, c.bins, file.name), c.items, file.name)
    IN  IF ~c.zip THEN [threw |-> TRUE, queries |-> <<>>, errors |-> <<>>]
        ELSE IF q = <<>> /\ c.conn.has
        THEN IF c.conn.throws
             THEN [threw |-> FALSE, queries |-> q, errors |-> <<"connections.xml: error">>]
             ELSE [threw |-> FALSE, queries |-> AddUnseen(q, QueriesOf(c.conn.names, file.name)),
                   errors |-> <<>>]
        ELSE [threw |-> FALSE, queries |-> q, errors |-> <<>>]

\* parsePbixFile (app.js 49-80), the data-model decoder being loaded
parsePbixFile(file) ==
    LET c == AContents[file.kind]
        q1 == AddAll(<<>>, c.bins, file.name)
        try2 == q1 = <<>> /\ c.schema.has
        q2 == IF try2 /\ ~c.schema.throws
              THEN AddUnseen(q1, QueriesOf(c.schema.names, file.name)) ELSE q1
        e2 == IF try2 /\ c.schema.throws THEN <<"DataModelSchema: error">> ELSE <<>>
        try3 == q2 = <<>> /\ c.model.has
        q3 == IF try3 /\ ~c.model.throws
              THEN AddUnseen(q2, QueriesOf(c.model.names, file.name)) ELSE q2
        e3 == IF try3 /\ c.model.throws THEN <<"DataModel: error">> ELSE <<>>
    IN  IF ~c.zip THEN [threw |-> TRUE, queries |-> <<>>, errors |-> <<>>]
        ELSE [threw |-> FALSE, queries |-> q3, errors |-> e2 \o e3]

\* the key of uniqFiles (app.js 521)
FileKey(f) == f.name \o "::" \o ToString(f.size) \o "::" \o ToString(f.lastModified)

RECURSIVE uniqFrom(_, _)
uniqFrom(files, kept) ==
    IF files = <<>> THEN kept
    ELSE IF \E k \in 1..Len(kept) : FileKey(kept[k]) = FileKey(files[1])
    THEN uniqFrom(Tail(files), kept)
    ELSE uniqFrom(Tail(files), Append(kept, files[1]))

\* uniqFiles (app.js 518-525)
uniqFiles(files) == uniqFrom(files, <<>>)

\* the files with a supported name, in order (app.js 502, 510, 552-559, 566)
Supported(files) == SelectSeq(files, LAMBDA f : isSupportedFile(f.name))

\* appState as processFiles and resetApp set it (app.js 17, 436, 483)
EmptyAppState ==
    [files |-> <<>>, queries |-> <<>>, errors |-> <<>>, selectedFiles |-> <<>>,
     worksheets |-> <<>>]

\* the size test, never met
NeverTooLarge(f) == FALSE

\* f.size>MAX_FILE_SIZE (app.js 440)
TooLarge(f) == f.size > MAX_FILE_SIZE

\* the functions the body of the loop calls on the file f, in the order of
\* the calls (app.js 440-448): none for a file that is too large, the parser
\* by the kind of the name, and the table reader when the parser returned
CallsFor(f) ==
    LET parser == IF isPbixFile(f.name) THEN "parsePbixFile" ELSE "parseXlsxFile"
        reader == IF isPbixFile(f.name) THEN "extractPbixTableData" ELSE "extractWorksheetData"
        r == IF isPbixFile(f.name) THEN parsePbixFile(f) ELSE parseXlsxFile(f)
    IN  IF TooLarge(f) THEN <<>>
        ELSE IF r.threw THEN <<parser>>
        ELSE <<parser, reader>>

\* the body of the loop of processFiles for the file f (app.js 438-450); the
\* message of the error JSZip throws stands as "not a zip file"
ProcessOne(st, f) ==
    LET r == IF isPbixFile(f.name) THEN parsePbixFile(f) ELSE parseXlsxFile(f)
        noted == st.errors \o [k \in 1..Len(r.errors) |-> [file |-> f.name, msg |-> r.errors[k]]]
        sheets == AContents[f.kind].sheets
        ws == [k \in 1..Len(sheets) |-> [fileName |-> f.name, sheetName |-> sheets[k]]]
    IN  IF TooLarge(f)
        THEN [st EXCEPT !.errors = Append(@, [file |-> f.name, msg |-> "Too large (>150MB)"])]
        ELSE IF r.threw
        THEN [st EXCEPT !.errors = Append(@, [file |-> f.name, msg |-> "not a zip file"])]
        ELSE IF r.queries # <<>>
        THEN [st EXCEPT !.errors = noted, !.files = Append(@, f.name),
                        !.queries = @ \o r.queries, !.worksheets = @ \o ws]
        ELSE [st EXCEPT !.errors = Append(noted, [file |-> f.name, msg |-> "No Power Query code found"]),
                        !.worksheets = @ \o ws]

(***************************************************************************)
(* SpecApp: files dropped on or picked for the page, run after run         *)
(***************************************************************************)
\* most files in one drop or one pick
MaxFiles == 2

\* the files of the model: a name, a size, a modification time, a content
AFiles ==
    {[name |-> "r.xlsx", size |-> 100, lastModified |-> 1, kind |-> k] :
        k \in {"one", "dup", "conn", "empty", "corrupt", "notzip"}}
    \cup {[name |-> "r.xlsx", size |-> 200, lastModified |-> 1, kind |-> k] : k \in {"one", "empty"}}
    \cup {[name |-> "s.xlsx", size |-> 100, lastModified |-> 1, kind |-> k] :
             k \in {"one", "empty", "corrupt"}}
    \cup {[name |-> "m.pbix", size |-> 100, lastModified |-> 1, kind |-> k] :
             k \in {"mashup", "schema"}}
    \cup {[name |-> "r.xlsx", size |-> MAX_FILE_SIZE + 1, lastModified |-> 1, kind |-> "one"],
          [name |-> "m.pbix", size |-> MAX_FILE_SIZE + 1, lastModified |-> 1, kind |-> "mashup"],
          [name |-> "s.xlsx", size |-> MAX_FILE_SIZE, lastModified |-> 1, kind |-> "one"],
          [name |-> "notes.txt", size |-> 100, lastModified |-> 1, kind |-> "empty"]}

RECURSIVE FileLists(_)
FileLists(n) ==
    IF n = 0 THEN {<<>>}
    ELSE LET shorter == FileLists(n - 1)
         IN  shorter \cup {Append(t, f) : t \in shorter, f \in AFiles}

\* a pick in the file dialog comes from one folder: no two files of one name
DistinctNames(files) ==
    \A i, j \in 1..Len(files) : i # j => files[i].name # files[j].name

InitA ==
    /\ aInput = <<>>
    /\ aState = EmptyAppState
    /\ aRuns = [pc |-> "idle", i |-> 1, dropZone |-> TRUE, calls |-> <<>>]
    /\ IdleM /\ IdleD /\ IdleX /\ IdleC /\ IdleF

\* processFiles up to its loop (app.js 430-436)
StartProcessFiles(files) ==
    /\ aInput' = files
    /\ aState' = EmptyAppState
    /\ aRuns' = [pc |-> "loop", i |-> 1, dropZone |-> FALSE, calls |-> <<>>]

\* the drop handler (app.js 531-563): files of folders and items, those with
\* a supported name, uniqFiles, processFiles when any is left
ADrop ==
    /\ aRuns.pc = "idle" /\ aRuns.dropZone
    /\ \E files \in FileLists(MaxFiles) :
          LET finalFiles == uniqFiles(Supported(files))
          IN  finalFiles # <<>> /\ StartProcessFiles(finalFiles)
    /\ UNCHANGED <<varsM, varsD, varsX, varsC, varsF>>

\* the change handler of the file input (app.js 566)
AChange ==
    /\ aRuns.pc = "idle" /\ aRuns.dropZone
    /\ \E files \in FileLists(MaxFiles) :
          /\ DistinctNames(files)
          /\ Supported(files) # <<>>
          /\ StartProcessFiles(Supported(files))
    /\ UNCHANGED <<varsM, varsD, varsX, varsC, varsF>>

\* one turn of the loop of processFiles (app.js 438-450)
AProcessFile ==
    /\ aRuns.pc = "loop"
    /\ aRuns.i <= Len(aInput)
    /\ aState' = ProcessOne(aState, aInput[aRuns.i])
    /\ aRuns' = [aRuns EXCEPT !.i = @ + 1,
                               !.calls = @ \o [k \in 1..Len(CallsFor(aInput[aRuns.i])) |->
                                                  [file |-> aRuns.i, fn |-> CallsFor(aInput[aRuns.i])[k]]]]
    /\ UNCHANGED aInput
    /\ UNCHANGED <<varsM, varsD, varsX, varsC, varsF>>

\* processFiles after its loop (app.js 452-478)
AFinish ==
    /\ aRuns.pc = "loop"
    /\ aRuns.i > Len(aInput)
    /\ aState' = IF aState.queries # <<>> THEN [aState EXCEPT !.selectedFiles = aState.files]
                 ELSE aState
    /\ aRuns' = [pc |-> "idle", i |-> 1, dropZone |-> aState.queries = <<>>, calls |-> <<>>]
    /\ aInput' = <<>>
    /\ UNCHANGED <<varsM, varsD, varsX, varsC, varsF>>

\* resetApp (app.js 481-494), by the button a run with queries shows
AReset ==
    /\ aRuns.pc = "idle" /\ ~aRuns.dropZone
    /\ aState' = EmptyAppState
    /\ aRuns' = [aRuns EXCEPT !.dropZone = TRUE]
    /\ UNCHANGED aInput
    /\ UNCHANGED <<varsM, varsD, varsX, varsC, varsF>>

NextA == ADrop \/ AChange \/ AProcessFile \/ AFinish \/ AReset

SpecApp == InitA /\ [][NextA]_vars

(***************************************************************************)
(* Properties of the application state (SpecApp)                           *)
(***************************************************************************)
\* C1: in every reachable application state no two entries of the extracted
\* query list share the same (container file name, query name) pair.
C1_NoDuplicateFileAndName ==
    \A i, j \in 1..Len(aState.queries) :
        i # j => <<aState.queries[i].fileName, aState.queries[i].name>>
                 # <<aState.queries[j].fileName, aState.queries[j].name>>

\* two files named r.xlsx, of different sizes, each holding the query Orders:
\* the list holds the pair (r.xlsx, Orders) twice
C1_SameNamedFiles ==
    /\ aState.files = <<"r.xlsx", "r.xlsx">>
    /\ aState.queries = <<QueryOf("Orders", "r.xlsx"), QueryOf("Orders", "r.xlsx")>>

\* what a run records for the container named n
Outcome(n) ==
    [listed |-> \E k \in 1..Len(aState.files) : aState.files[k] = n,
     msgs |-> {aState.errors[k].msg : k \in {j \in 1..Len(aState.errors) : aState.errors[j].file = n}}]

\* the loop of a run is over
LoopDone == aRuns.pc = "loop" /\ aRuns.i > Len(aInput)

\* C2: for every processed container that yields no queries, the outcome
\* recorded distinguishes "parsed, nothing found" from "parsing failed": a
\* container whose extraction attempts failed is never recorded with the same
\* outcome as one that was parsed and holds no query.
C2_FailureDistinguishedFromEmpty ==
    LoopDone =>
        \A i, j \in 1..Len(aInput) :
            (/\ aInput[i].name # aInput[j].name
             /\ DistinctNames(aInput)
             /\ aInput[i].size <= MAX_FILE_SIZE /\ aInput[j].size <= MAX_FILE_SIZE
             /\ AContents[aInput[i].kind].failed
             /\ aInput[j].kind = "empty")
            => Outcome(aInput[i].name) # Outcome(aInput[j].name)

\* r.xlsx, whose query bundle cannot be read, and s.xlsx, which holds none:
\* the same message for both and nothing else
C2_SameOutcome ==
    /\ LoopDone
    /\ Len(aInput) = 2
    /\ aInput[1].name = "r.xlsx" /\ aInput[1].kind = "corrupt"
    /\ aInput[2].name = "s.xlsx" /\ aInput[2].kind = "empty"
    /\ aState.errors = <<[file |-> "r.xlsx", msg |-> "No Power Query code found"],
                         [file |-> "s.xlsx", msg |-> "No Power Query code found"]>>
    /\ aState.files = <<>>

(***************************************************************************)
(* The metadata database reader: readMCodeFromSQLite, xpress9_wasm.c       *)
(* 228-375. Byte arrays are sequences of 0..255; an offset counts from 0.  *)
(***************************************************************************)
\* what reading a typed array past its end gives
NoByte == -1

\* a result the model does not carry as an integer: a length of 2^31 - 1 or
\* more. The only such length among the inputs is the nine-byte varint of
\* 0xFF bytes, which is above 2^53 - 1
Huge == 2147483647

\* not-a-number, as a page number or offset
NaN == -2

ByteAt(data, pos) == IF pos >= 0 /\ pos < Len(data) THEN data[pos + 1] ELSE NoByte

ZeroBytes(n) == [i \in 1..n |-> 0]

Min(a, b) == IF a <= b THEN a ELSE b

Max(a, b) == IF a >= b THEN a ELSE b

\* data.subarray(a, b) and data.slice(a, b) for a, b >= 0: clamped to the array
Subarray(data, a, b) == SubSeq(data, a + 1, Min(b, Len(data)))

\* result * k + d, kept below Huge
Accumulate(result, k, d) ==
    IF result >= Huge \div k THEN Huge ELSE result * k + d

RECURSIVE readVarintFrom(_, _, _, _)
\* the loop of readVarint from its i-th turn; a byte past the end reads as
\* undefined, whose bits are all zero, and ends the varint
readVarintFrom(data, pos, i, result) ==
    IF i = 8
    THEN [v |-> Accumulate(result, 256, Max(ByteAt(data, pos + 8), 0)), n |-> 9]
    ELSE LET b == Max(ByteAt(data, pos + i), 0)
             r == Accumulate(result, 128, b % 128)
         IN  IF b < 128 THEN [v |-> r, n |-> i + 1]
             ELSE readVarintFrom(data, pos, i + 1, r)

\* readVarint (xpress9_wasm.c 243-253)
readVarint(data, pos) == readVarintFrom(data, pos, 0, 0)

RECURSIVE readBEFrom(_, _, _, _, _)
readBEFrom(data, pos, len, i, val) ==
    IF i = len THEN val
    ELSE IF ByteAt(data, pos + i) = NoByte THEN NaN
    ELSE readBEFrom(data, pos, len, i + 1, Accumulate(val, 256, ByteAt(data, pos + i)))

\* readBE (xpress9_wasm.c 256-260): NaN once a byte is past the end
readBE(data, pos, len) == readBEFrom(data, pos, len, 0, 0)

(***************************************************************************)
(* Column values of a record. An integer is a sign and a magnitude, the    *)
(* magnitude in big-endian bytes without leading zeros: the eight-byte     *)
(* values do not fit the integers of the checker.                          *)
(***************************************************************************)
RECURSIVE StripZeros(_)
StripZeros(b) == IF b # <<>> /\ b[1] = 0 THEN StripZeros(Tail(b)) ELSE b

IntVal(neg, mag) == [k |-> "int", neg |-> neg /\ StripZeros(mag) # <<>>, mag |-> StripZeros(mag)]

NaNVal == [k |-> "nan"]

NullVal == [k |-> "null"]

BytesVal(kind, bytes) == [k |-> kind, bytes |-> bytes]

RECURSIVE DecBytes(_)
\* the big-endian bytes of b - 1, for b > 0
DecBytes(b) ==
    IF b[Len(b)] > 0 THEN [b EXCEPT ![Len(b)] = @ - 1]
    ELSE DecBytes(SubSeq(b, 1, Len(b) - 1)) \o <<255>>

\* the big-endian bytes of 256^Len(b) - b, for b > 0
Negate(b) == LET d == DecBytes(b) IN [i \in 1..Len(d) |-> 255 - d[i]]

\* the byte lengths of the serial types 1 to 6 (xpress9_wasm.c 314)
lens == <<1, 2, 3, 4, 6, 8>>

\* the bits by which 1 << count shifts: the count is taken modulo 32
ShiftCount(count) == count % 32

\* the value as the record means it: two's complement of the stored bytes
TwosComplement(bytes) ==
    IF bytes[1] >= 128 THEN IntVal(TRUE, Negate(bytes)) ELSE IntVal(FALSE, bytes)

\* val -= (1 << (len * 8)) on the unsigned value of the bytes, whose leading
\* bit is set (xpress9_wasm.c 319). The 1 << is 256^e with e below 4. A value
\* of eight bytes is a double of 2^63 or more, which a subtraction of 1
\* leaves as it is
SignExtend(bytes) ==
    LET len == Len(bytes)
        e == ShiftCount(len * 8) \div 8
    IN  IF e = len THEN IntVal(TRUE, Negate(bytes))
        ELSE IF len = 8 THEN IntVal(FALSE, bytes)
        ELSE IntVal(FALSE, DecBytes(SubSeq(bytes, 1, len - e)) \o SubSeq(bytes, len - e + 1, len))

\* the integer of serial type st at dPos (xpress9_wasm.c 313-321)
readInt(payload, dPos, st) ==
    LET len == lens[st]
        bytes == Subarray(payload, dPos, dPos + len)
    IN  IF Len(bytes) < len THEN NaNVal
        ELSE IF bytes[1] >= 128 THEN SignExtend(bytes)
        ELSE IntVal(FALSE, bytes)

RECURSIVE readTypes(_, _, _, _)
\* the serial types of the record header (xpress9_wasm.c 301-306)
readTypes(payload, pos, headerLen, types) ==
    IF pos < headerLen
    THEN LET t == readVarint(payload, pos)
         IN  readTypes(payload, pos + t.n, headerLen, Append(types, t.v))
    ELSE types

RECURSIVE readValues(_, _, _, _, _)
\* the values of the record from its k-th type on (xpress9_wasm.c 310-340);
\* the view of the eight bytes of a float throws when they pass the end
readValues(payload, types, k, dPos, values) ==
    IF k > Len(types) THEN [threw |-> FALSE, values |-> values]
    ELSE LET st == types[k]
         IN  CASE st = 0 -> readValues(payload, types, k + 1, dPos, Append(values, NullVal))
               [] st >= 1 /\ st <= 6 ->
                    readValues(payload, types, k + 1, dPos + lens[st],
                               Append(values, readInt(payload, dPos, st)))
               [] st = 7 ->
                    IF dPos + 8 > Len(payload) THEN [threw |-> TRUE, values |-> <<>>]
                    ELSE readValues(payload, types, k + 1, dPos + 8,
                                    Append(values, BytesVal("float", Subarray(payload, dPos, dPos + 8))))
               [] st = 8 -> readValues(payload, types, k + 1, dPos, Append(values, IntVal(FALSE, <<0>>)))
               [] st = 9 -> readValues(payload, types, k + 1, dPos, Append(values, IntVal(FALSE, <<1>>)))
               [] st >= 12 /\ st % 2 = 0 ->
                    LET len == (st - 12) \div 2
                    IN  readValues(payload, types, k + 1, dPos + len,
                                   Append(values, BytesVal("blob", Subarray(payload, dPos, dPos + len))))
               [] st >= 13 /\ st % 2 = 1 ->
                    LET len == (st - 13) \div 2
                    IN  readValues(payload, types, k + 1, dPos + len,
                                   Append(values, BytesVal("text", Subarray(payload, dPos, dPos + len))))
               [] OTHER -> readValues(payload, types, k + 1, dPos, Append(values, NullVal))

\* parseRecord (xpress9_wasm.c 299-343)
parseRecord(payload) ==
    LET h == readVarint(payload, 0)
    IN  readValues(payload, readTypes(payload, h.n, h.v, <<>>), 1, h.v, <<>>)

(***************************************************************************)
(* SpecRecord: parseRecord on records of one column                        *)
(***************************************************************************)
\* leading, middle and last bytes of the stored integers
LeadBytes == {0, 1, 127, 128, 255}

FillBytes == {0, 255}

LastBytes == {0, 1, 255}

\* the stored bytes of an integer of len bytes. Of eight bytes the last two
\* are zero: the value then has at most 48 significant bits and the sum
\* val * 256 + byte of the code is exact in a double
IntPatterns(len) ==
    IF len = 1 THEN {<<a>> : a \in LeadBytes}
    ELSE IF len = 8
    THEN {<<a>> \o [i \in 1..5 |-> f] \o <<0, 0>> : a \in LeadBytes, f \in FillBytes}
    ELSE {<<a>> \o [i \in 1..(len - 2) |-> f] \o <<z>> :
             a \in LeadBytes, f \in FillBytes, z \in LastBytes}

\* a record of one column: header length 2, the serial type, the bytes
RecordOf(st, bytes) == <<2, st>> \o bytes

\* records of one integer, and of the other serial types, whole and cut short
RRecords ==
    UNION {{RecordOf(st, b) : b \in IntPatterns(lens[st])} : st \in 1..6}
    \cup {RecordOf(st, <<>>) : st \in {0, 8, 9, 10, 11}}
    \cup {RecordOf(7, ZeroBytes(n)) : n \in {0, 7, 8}}
    \cup {RecordOf(st, <<65, 66>>) : st \in {12, 13, 14, 15, 16, 17, 18, 19}}
    \cup {RecordOf(st, <<128>>) : st \in {2, 3}}

InitR ==
    /\ fIn \in RRecords
    /\ fPc = "record"
    /\ fOut = "none"
    /\ IdleM /\ IdleD /\ IdleX /\ IdleC /\ IdleA

\* one call of parseRecord
RParseRecord ==
    /\ fPc = "record"
    /\ fOut' = parseRecord(fIn)
    /\ fPc' = "parsed"
    /\ UNCHANGED fIn
    /\ UNCHANGED <<varsM, varsD, varsX, varsC, varsA>>

NextR == RParseRecord

SpecRecord == InitR /\ [][NextR]_vars

(***************************************************************************)
(* Properties of record decoding (SpecRecord)                              *)
(***************************************************************************)
\* the record holds one whole integer of serial type 1 to 6
WholeInt == fIn[2] \in 1..6 /\ Len(fIn) = 2 + lens[fIn[2]]

\* C13: record decoding of the serial types 1 to 6 returns the big-endian
\* two's-complement value of the 1, 2, 3, 4, 6 or 8 stored bytes: a pattern
\* whose leading bit is set decodes to a negative value, the unsigned value
\* minus 2^(8*len).
C13_SignExtendedIntegers ==
    (fPc = "parsed" /\ WholeInt) =>
        /\ ~fOut.threw
        /\ fOut.values = <<TwosComplement(SubSeq(fIn, 3, Len(fIn)))>>

\* the four bytes FF FF FF FF decode to 4294967294, not to -1
C13_FourBytesStayPositive ==
    /\ fPc = "parsed"
    /\ fIn = RecordOf(4, <<255, 255, 255, 255>>)
    /\ fOut.values = <<[k |-> "int", neg |-> FALSE, mag |-> <<255, 255, 255, 254>>]>>

\* the three bytes FF FF FF decode to -1, the six bytes FF .. FF to
\* 281474976645119 (2^48 - 1 - 65536)
C13_ThreeBytesNegative ==
    /\ fPc = "parsed"
    /\ fIn = RecordOf(3, <<255, 255, 255>>)
    /\ fOut.values = <<[k |-> "int", neg |-> TRUE, mag |-> <<1>>]>>

(***************************************************************************)
(* readCellPayload and readTable: xpress9_wasm.c 237-241, 263-296, 346-375 *)
(***************************************************************************)
\* the page size the header of the databases below declares, and their
\* reserved bytes per page
pageSize == 512

reserved == 0

usableSize == pageSize - reserved

\* getPage (xpress9_wasm.c 240): a page past the end of the buffer, or of no
\* number, is an empty array
getPage(db, num) == IF num \in 1..Len(db) THEN db[num] ELSE <<>>

\* payload.set(chunk, at)
Overwrite(payload, at, chunk) ==
    [i \in 1..Len(payload) |->
        IF i > at /\ i <= at + Len(chunk) THEN chunk[i - at] ELSE payload[i]]

RECURSIVE readOverflow(_, _, _, _, _)
\* the loop over the overflow pages (xpress9_wasm.c 287-293)
readOverflow(db, overflowPageNum, written, payloadLen, payload) ==
    IF overflowPageNum # 0 /\ written < payloadLen
    THEN LET oPage == getPage(db, overflowPageNum)
             avail == Min(usableSize - 4, payloadLen - written)
         IN  readOverflow(db, readBE(oPage, 0, 4), written + avail, payloadLen,
                          Overwrite(payload, written, Subarray(oPage, 4, 4 + avail)))
    ELSE payload

\* readCellPayload (xpress9_wasm.c 263-296); new Uint8Array(payloadLen)
\* throws a RangeError for a length above 2^53 - 1
readCellPayload(db, page, cellPtr) ==
    LET pl == readVarint(page, cellPtr)
        rid == readVarint(page, cellPtr + pl.n)
        hdrStart == cellPtr + pl.n + rid.n
        payloadLen == pl.v
        maxLocal == usableSize - 35
        minLocal == (((usableSize - 12) * 32) \div 255) - 23
        wrapped == minLocal + ((payloadLen - minLocal) % (usableSize - 4))
        localSize == IF payloadLen <= maxLocal THEN payloadLen
                     ELSE IF wrapped > maxLocal THEN minLocal ELSE wrapped
    IN  IF payloadLen >= Huge THEN [threw |-> TRUE, rowid |-> rid.v, payload |-> <<>>]
        ELSE LET local == Subarray(page, hdrStart, hdrStart + Min(localSize, payloadLen))
                 first == local \o ZeroBytes(payloadLen - Len(local))
             IN  [threw |-> FALSE, rowid |-> rid.v,
                  payload |-> IF localSize < payloadLen
                              THEN readOverflow(db, readBE(page, hdrStart + localSize, 4),
                                                localSize, payloadLen, first)
                              ELSE first]

\* the offset of the page header (xpress9_wasm.c 350)
hdrOff(pageNum) == IF pageNum = 1 THEN 100 ELSE 0

\* (page[o] << 8) | page[o + 1], the bytes within the page
readU16(page, o) == ByteAt(page, o) * 256 + ByteAt(page, o + 1)

\* numCells of a page (xpress9_wasm.c 355, 363)
numCells(page, pageNum) == readU16(page, hdrOff(pageNum) + 3)

\* the type byte of a page; a page past the end has none
pageType(page, pageNum) == ByteAt(page, hdrOff(pageNum))

(***************************************************************************)
(* SpecScan: readTable over databases of a few pages                       *)
(***************************************************************************)
\* most cells on a leaf page
MaxCells == 2

BE2(n) == <<n \div 256, n % 256>>

BE4(n) == <<0, 0>> \o BE2(n)

\* the varint of a length below 16384, and the nine-byte varint of 0xFF bytes
Varint(n) == IF n < 128 THEN <<n>> ELSE <<128 + (n \div 128), n % 128>>

HugeVarint == [i \in 1..9 |-> 255]

\* a record of one text of 497 bytes: 500 bytes, of which 39 stay on the leaf
LongRecord == <<3>> \o Varint(13 + 2 * 497) \o [i \in 1..497 |-> 66]

\* the page the overflow of LongRecord is stored on, and a page number the
\* databases do not have
OverflowPageNum == 5

NoPageNum == 9

\* a record of one text of 1197 bytes: 1200 bytes, of which 184 stay on the
\* leaf, and the overflow page it continues on, whose next-page field names
\* the page itself
LoopRecord == <<3>> \o Varint(13 + 2 * 1197) \o [i \in 1..1197 |-> 66]

LoopPageNum == 6

\* the kinds of cell: three intact ones, and four corrupt ones (an
\* undecodable record, a payload length above 2^53, a payload length that
\* passes the end of the page, an overflow pointer to a page that is not there)
IntactKinds == {"int", "text", "overflow"}

CorruptKinds == {"float cut", "huge length", "long length", "bad overflow"}

CellKinds == IntactKinds \cup CorruptKinds

\* the bytes of a leaf cell: payload length, rowid, local payload, and the
\* overflow page number where the payload does not fit
CellBytes(kind, rowid) ==
    CASE kind = "int" -> <<3, rowid, 2, 1, 7>>
      [] kind = "text" -> <<3, rowid, 2, 15, 65>>
      [] kind = "float cut" -> <<4, rowid, 2, 7, 0, 0>>
      [] kind = "huge length" -> HugeVarint \o <<rowid, 2, 1, 7>>
      [] kind = "long length" -> Varint(400) \o <<rowid, 2, 1, 7>>
      [] kind = "overflow" ->
            Varint(500) \o <<rowid>> \o SubSeq(LongRecord, 1, 39) \o BE4(OverflowPageNum)
      [] kind = "bad overflow" ->
            Varint(500) \o <<rowid>> \o SubSeq(LongRecord, 1, 39) \o BE4(NoPageNum)
      [] kind = "loop overflow" ->
            Varint(1200) \o <<rowid>> \o SubSeq(LoopRecord, 1, 184) \o BE4(LoopPageNum)

\* the values of the row of an intact cell
CellValues(kind) ==
    CASE kind = "int" -> <<IntVal(FALSE, <<7>>)>>
      [] kind = "text" -> <<BytesVal("text", <<65>>)>>
      [] kind = "overflow" -> <<BytesVal("text", [i \in 1..497 |-> 66])>>
      [] kind = "loop overflow" -> <<BytesVal("text", [i \in 1..1197 |-> 66])>>

RECURSIVE CellArea(_)
\* the cell content area: the first cell ends the page
CellArea(cells) == IF cells = <<>> THEN <<>> ELSE CellArea(Tail(cells)) \o cells[1]

\* the pointer to the k-th cell
CellPtr(cells, k) == pageSize - Len(CellArea(SubSeq(cells, 1, k)))

RECURSIVE CellPtrs(_, _)
CellPtrs(cells, k) ==
    IF k > Len(cells) THEN <<>> ELSE BE2(CellPtr(cells, k)) \o CellPtrs(cells, k + 1)

\* a page of the given header and cells, zero between the pointers and the cells
PageOf(header, cells) ==
    LET top == header \o CellPtrs(cells, 1)
        area == CellArea(cells)
    IN  top \o ZeroBytes(pageSize - Len(top) - Len(area)) \o area

\* a leaf table page (type 0x0d) and an interior table page (type 0x05)
LeafPage(cells) == PageOf(<<13, 0, 0>> \o BE2(Len(cells)) \o <<0, 0, 0>>, cells)

InteriorPage(children, rightChild) ==
    PageOf(<<5, 0, 0>> \o BE2(Len(children)) \o <<0, 0, 0>> \o BE4(rightChild),
           [k \in 1..Len(children) |-> BE4(children[k]) \o <<k>>])

\* the overflow page of LongRecord: no next page, the 461 bytes left
OverflowPage ==
    LET data == BE4(0) \o SubSeq(LongRecord, 40, 500)
    IN  data \o ZeroBytes(pageSize - Len(data))

RECURSIVE KindLists(_)
KindLists(n) ==
    IF n = 0 THEN {<<>>}
    ELSE LET shorter == KindLists(n - 1)
         IN  shorter \cup {Append(t, k) : t \in shorter, k \in CellKinds}

CellsOf(kinds, firstRowid) ==
    [k \in 1..Len(kinds) |-> CellBytes(kinds[k], firstRowid + k - 1)]

\* a table of one leaf page (page 2), and a table of an interior page (page
\* 2) over two leaf pages (3 and 4); page 1 is the header page, page 5 the
\* overflow page
SDatabases ==
    {[kinds |-> ks,
      db |-> <<ZeroBytes(pageSize), LeafPage(CellsOf(ks, 1)), ZeroBytes(pageSize),
               ZeroBytes(pageSize), OverflowPage>>] : ks \in KindLists(MaxCells) \ {<<>>}}
    \cup
    {[kinds |-> <<a, b>>,
      db |-> <<ZeroBytes(pageSize), InteriorPage(<<3>>, 4), LeafPage(CellsOf(<<a>>, 1)),
               LeafPage(CellsOf(<<b>>, 2)), OverflowPage>>] : a, b \in CellKinds}

\* the page readTable is called with
rootPage == 2

\* the calls of traverse the call stack of the engine holds; one call more
\* ends in a RangeError
MaxDepth == 6

\* fOut.stack holds the calls of traverse in progress, the innermost last:
\* the page number and the turn of its loop; fOut.visited the pages traverse
\* was called with, in the order of the calls
InitS ==
    /\ fIn \in SDatabases
    /\ fPc = "database"
    /\ fOut = [stack |-> <<>>, rows |-> <<>>, visited |-> <<>>, overflowed |-> FALSE]
    /\ IdleM /\ IdleD /\ IdleX /\ IdleC /\ IdleA

Top == fOut.stack[Len(fOut.stack)]

TopPage == getPage(fIn.db, Top.page)

Pop(stack) == SubSeq(stack, 1, Len(stack) - 1)

Turn(stack) == [stack EXCEPT ![Len(stack)].i = @ + 1]

\* traverse(pageNum) is called from the call at the top of the stack, whose
\* loop is at its next turn when the call returns (xpress9_wasm.c 348, 368,
\* 370): the call is entered, or the stack is full and the error leaves
\* readTable, which has no catch around traverse
Enter(out, pageNum) ==
    IF Len(out.stack) >= MaxDepth
    THEN [out EXCEPT !.stack = <<>>, !.overflowed = TRUE]
    ELSE [out EXCEPT !.stack = Append(Turn(@), [page |-> pageNum, i |-> 0]),
                     !.visited = Append(@, pageNum)]

\* readTable calls traverse(rootPage) (xpress9_wasm.c 346-348, 373)
SReadTable ==
    /\ fPc = "database"
    /\ fOut' = [fOut EXCEPT !.stack = <<[page |-> rootPage, i |-> 0]>>,
                            !.visited = <<rootPage>>]
    /\ fPc' = "scan"
    /\ UNCHANGED fIn
    /\ UNCHANGED <<varsM, varsD, varsX, varsC, varsA>>

\* one turn of the loop over the cells of a leaf page (xpress9_wasm.c
\* 356-360): the try encloses parseRecord and nothing else
SLeafCell ==
    /\ fPc = "scan" /\ fOut.stack # <<>>
    /\ pageType(TopPage, Top.page) = 13
    /\ Top.i < numCells(TopPage, Top.page)
    /\ LET cellPtr == readU16(TopPage, hdrOff(Top.page) + 8 + Top.i * 2)
           cell == readCellPayload(fIn.db, TopPage, cellPtr)
           rec == parseRecord(cell.payload)
       IN  IF cell.threw
           THEN fPc' = "threw" /\ fOut' = [fOut EXCEPT !.stack = <<>>]
           ELSE /\ fPc' = fPc
                /\ fOut' = [fOut EXCEPT
                              !.stack = Turn(@),
                              !.rows = IF rec.threw THEN @
                                       ELSE Append(@, [rowid |-> cell.rowid, values |-> rec.values])]
    /\ UNCHANGED fIn
    /\ UNCHANGED <<varsM, varsD, varsX, varsC, varsA>>

\* one turn of the loop over the cells of an interior page (xpress9_wasm.c
\* 365-369)
SChild ==
    /\ fPc = "scan" /\ fOut.stack # <<>>
    /\ pageType(TopPage, Top.page) = 5
    /\ Top.i < numCells(TopPage, Top.page)
    /\ LET cellPtr == readU16(TopPage, hdrOff(Top.page) + 12 + Top.i * 2)
           childPage == readBE(TopPage, cellPtr, 4)
       IN  /\ fOut' = Enter(fOut, childPage)
           /\ fPc' = IF Enter(fOut, childPage).overflowed THEN "threw" ELSE fPc
    /\ UNCHANGED fIn
    /\ UNCHANGED <<varsM, varsD, varsX, varsC, varsA>>

\* traverse(rightChild) after the loop (xpress9_wasm.c 364, 370)
SRightChild ==
    /\ fPc = "scan" /\ fOut.stack # <<>>
    /\ pageType(TopPage, Top.page) = 5
    /\ Top.i = numCells(TopPage, Top.page)
    /\ LET rightChild == readBE(TopPage, hdrOff(Top.page) + 8, 4)
       IN  /\ fOut' = Enter(fOut, rightChild)
           /\ fPc' = IF Enter(fOut, rightChild).overflowed THEN "threw" ELSE fPc
    /\ UNCHANGED fIn
    /\ UNCHANGED <<varsM, varsD, varsX, varsC, varsA>>

\* a call of traverse returns: its loop is over, or the page is of neither type
SPageDone ==
    /\ fPc = "scan" /\ fOut.stack # <<>>
    /\ CASE pageType(TopPage, Top.page) = 13 -> Top.i >= numCells(TopPage, Top.page)
         [] pageType(TopPage, Top.page) = 5 -> Top.i > numCells(TopPage, Top.page)
         [] OTHER -> TRUE
    /\ fOut' = [fOut EXCEPT !.stack = Pop(@)]
    /\ UNCHANGED <<fIn, fPc>>
    /\ UNCHANGED <<varsM, varsD, varsX, varsC, varsA>>

\* readTable returns the rows (xpress9_wasm.c 374)
SReturn ==
    /\ fPc = "scan" /\ fOut.stack = <<>>
    /\ fPc' = "returned"
    /\ UNCHANGED <<fIn, fOut>>
    /\ UNCHANGED <<varsM, varsD, varsX, varsC, varsA>>

NextS == SReadTable \/ SLeafCell \/ SChild \/ SRightChild \/ SPageDone \/ SReturn

SpecScan == InitS /\ [][NextS]_vars

(***************************************************************************)
(* Properties of the table scan (SpecScan)                                 *)
(***************************************************************************)
RECURSIVE IntactRows(_, _)
\* the rows of the intact cells from the k-th cell on, in the order of the scan
IntactRows(kinds, k) ==
    IF k > Len(kinds) THEN <<>>
    ELSE IF kinds[k] \in IntactKinds
    THEN <<[rowid |-> k, values |-> CellValues(kinds[k])]>> \o IntactRows(kinds, k + 1)
    ELSE IntactRows(kinds, k + 1)

\* C12: during a table scan a corrupt cell (bad payload length, bad overflow
\* pointer, undecodable record) causes only its row to be dropped: the scan
\* is never aborted, goes on with the remaining cells and pages, and returns
\* all the other rows.
C12_CorruptCellDropsOnlyItsRow ==
    /\ fPc # "threw"
    /\ fPc = "returned" => fOut.rows = IntactRows(fIn.kinds, 1)

\* a leaf whose first cell is intact and whose second cell declares a payload
\* length above 2^53: the scan is left by the throw, the first row with it
C12_HugeLengthAbortsScan ==
    /\ fPc = "threw"
    /\ fIn.kinds = <<"int", "huge length">>
    /\ fOut.rows = <<[rowid |-> 1, values |-> <<IntVal(FALSE, <<7>>)>>]>>

\* an undecodable record costs its own row only, on either leaf of the tree
C12_UndecodableRecordDropped ==
    /\ fPc = "returned"
    /\ Len(fIn.db[2]) = pageSize /\ fIn.db[2][1] = 5
    /\ fIn.kinds = <<"float cut", "text">>
    /\ fOut.rows = <<[rowid |-> 2, values |-> <<BytesVal("text", <<65>>)>>]>>

\* the row of a cell whose overflow pointer names no page is kept, its text
\* zero from the 37th byte on
C12_BadOverflowRowKept ==
    /\ fPc = "returned"
    /\ fIn.kinds = <<"bad overflow">>
    /\ fOut.rows = <<[rowid |-> 1,
                      values |-> <<BytesVal("text", [i \in 1..497 |-> IF i <= 36 THEN 66 ELSE 0])>>]>>

(***************************************************************************)
(* The value index: decodeRleBitPackedHybrid, app.js 1171-1211. A 64-bit   *)
(* word is its 64 bits, the least significant first; a 32-bit value is its *)
(* two 16-bit halves, as the integers of the checker are 32 bits wide.     *)
(***************************************************************************)
\* the value n, below 2^31, as a 32-bit value
Id(n) == [hi |-> n \div 65536, lo |-> n % 65536]

\* 0xFFFFFFFF
Sentinel == [hi |-> 65535, lo |-> 65535]

\* v + n for a cursor n; the sum is a double and does not wrap
PlusCursor(v, n) ==
    LET low == v.lo + n IN [hi |-> v.hi + (low \div 65536), lo |-> low % 65536]

\* the bits of a byte, and of a word given by its eight bytes (the most
\* significant byte first), the least significant bit first
BitsOfByte(b) == [k \in 1..8 |-> (b \div (2 ^ (k - 1))) % 2]

WordOf(bytes) ==
    [k \in 1..64 |-> BitsOfByte(bytes[8 - ((k - 1) \div 8)])[((k - 1) % 8) + 1]]

ZeroWord == [k \in 1..64 |-> 0]

\* the number of low bits the mask (1 << bitWidth) - 1 keeps: the shift
\* count is taken modulo 32 (no width of 31 modulo 32 is among the inputs)
MaskBits(bitWidth) == bitWidth % 32

RECURSIVE FieldFrom(_, _, _)
\* the value of the n bits of the word from position p up (1 the least
\* significant); above the 64th the bits are zero
FieldFrom(word, p, n) ==
    IF n = 0 THEN 0
    ELSE (IF p <= 64 THEN word[p] ELSE 0) + 2 * FieldFrom(word, p + 1, n - 1)

\* val & mask at the j-th turn, after j shifts right by bitWidth (app.js
\* 1189-1190)
Field(word, j, bitWidth) == FieldFrom(word, j * bitWidth + 1, MaskBits(bitWidth))

\* the turns of the loop j < 64 / bitWidth, the quotient not rounded
FieldCount(bitWidth) == (64 + bitWidth - 1) \div bitWidth

\* the ids one word adds (app.js 1186-1191)
UnpackWord(word, minDataId, bitWidth) ==
    [j \in 1..FieldCount(bitWidth) |-> Id(minDataId + Field(word, j - 1, bitWidth))]

RECURSIVE UnpackWords(_, _, _)
UnpackWords(subSegment, minDataId, bitWidth) ==
    IF subSegment = <<>> THEN <<>>
    ELSE UnpackWord(subSegment[1], minDataId, bitWidth)
         \o UnpackWords(Tail(subSegment), minDataId, bitWidth)

\* the first half of decodeRleBitPackedHybrid (app.js 1175-1192)
bitpackedValues(idfData, meta) ==
    IF meta.countBitPacked > 0 /\ Len(idfData.subSegment) > 0
    THEN IF Len(idfData.subSegment) = 1 /\ idfData.subSegment[1] = ZeroWord
         THEN [i \in 1..meta.countBitPacked |-> Id(meta.minDataId)]
         ELSE UnpackWords(idfData.subSegment, meta.minDataId, meta.bitWidth)
    ELSE <<>>

\* bpOffset += count, without the advance
KeepCursor(bpOffset, count) == bpOffset

\* bpOffset += count (app.js 1203)
AdvanceCursor(bpOffset, count) == bpOffset + count

RECURSIVE ExpandFrom(_, _, _, _, _)
\* the loop over the primary segment from its k-th entry (app.js 1197-1209)
ExpandFrom(primarySegment, bitpacked, k, bpOffset, vector) ==
    IF k > Len(primarySegment) THEN vector
    ELSE LET entry == primarySegment[k]
         IN  IF PlusCursor(entry.dataValue, bpOffset) = Sentinel
             THEN ExpandFrom(primarySegment, bitpacked, k + 1,
                             AdvanceCursor(bpOffset, entry.repeatValue),
                             vector \o SubSeq(bitpacked, bpOffset + 1,
                                              Min(bpOffset + entry.repeatValue, Len(bitpacked))))
             ELSE ExpandFrom(primarySegment, bitpacked, k + 1, bpOffset,
                             vector \o [i \in 1..entry.repeatValue |-> entry.dataValue])

\* decodeRleBitPackedHybrid (app.js 1171-1211)
decodeRleBitPackedHybrid(idfData, meta) ==
    ExpandFrom(idfData.primarySegment, bitpackedValues(idfData, meta), 1, 0, <<>>)

(***************************************************************************)
(* SpecIdf: decodeRleBitPackedHybrid on bounded value-index files          *)
(***************************************************************************)
\* most words of a sub-segment, most entries of a primary segment
MaxWords == 2

MaxRuns == 2

\* 0x0123456709ABCDEF; the word whose 16-bit fields are 0, 1, 2, 3 from the
\* least significant; the zero word
Words ==
    {WordOf(<<1, 35, 69, 103, 9, 171, 205, 239>>), WordOf(<<0, 3, 0, 2, 0, 1, 0, 0>>), ZeroWord}

BitWidths == {1, 3, 8, 16, 32}

\* entries of a primary segment: 0xFFFFFFFF and 0xFFFFFFFC as values open a
\* bit-packed run at the cursors 0 and 3
RunEntries ==
    {[dataValue |-> Sentinel, repeatValue |-> 3],
     [dataValue |-> [hi |-> 65535, lo |-> 65532], repeatValue |-> 2],
     [dataValue |-> Id(7), repeatValue |-> 2],
     [dataValue |-> Id(100), repeatValue |-> 0]}

RECURSIVE ListsOf(_, _)
\* the sequences over S of length n or less
ListsOf(S, n) ==
    IF n = 0 THEN {<<>>}
    ELSE LET shorter == ListsOf(S, n - 1)
         IN  shorter \cup {Append(t, x) : t \in shorter, x \in S}

IInputs ==
    {[idfData |-> [primarySegment |-> p, subSegment |-> w],
      meta |-> [minDataId |-> 100, countBitPacked |-> c, bitWidth |-> b]] :
        p \in ListsOf(RunEntries, MaxRuns), w \in ListsOf(Words, MaxWords),
        c \in {0, 3}, b \in BitWidths}

InitI ==
    /\ fIn \in IInputs
    /\ fPc = "idf"
    /\ fOut = [bitpackedValues |-> <<>>, vector |-> <<>>]
    /\ IdleM /\ IdleD /\ IdleX /\ IdleC /\ IdleA

\* the bit-packed stream is built (app.js 1175-1192)
IUnpack ==
    /\ fPc = "idf"
    /\ fOut' = [fOut EXCEPT !.bitpackedValues = bitpackedValues(fIn.idfData, fIn.meta)]
    /\ fPc' = "unpacked"
    /\ UNCHANGED fIn
    /\ UNCHANGED <<varsM, varsD, varsX, varsC, varsA>>

\* the primary segment is expanded and the vector returned (app.js 1194-1210)
IExpand ==
    /\ fPc = "unpacked"
    /\ fOut' = [fOut EXCEPT !.vector = ExpandFrom(fIn.idfData.primarySegment,
                                                  fOut.bitpackedValues, 1, 0, <<>>)]
    /\ fPc' = "decoded"
    /\ UNCHANGED fIn
    /\ UNCHANGED <<varsM, varsD, varsX, varsC, varsA>>

NextI == IUnpack \/ IExpand

SpecIdf == InitI /\ [][NextI]_vars

(***************************************************************************)
(* Properties of the value-index decode (SpecIdf)                          *)
(***************************************************************************)
\* the sub-segment is unpacked word by word: it is not empty, ids are
\* counted, and it is not the single zero word of the shortcut
Unpacked ==
    /\ fIn.meta.countBitPacked > 0
    /\ Len(fIn.idfData.subSegment) > 0
    /\ fIn.idfData.subSegment # <<ZeroWord>>

\* the fields of a word of 64 \div bitWidth fields, the most significant first
FieldsMsbFirst(word, minDataId, bitWidth) ==
    [j \in 1..(64 \div bitWidth) |->
        Id(minDataId + FieldFrom(word, 64 - j * bitWidth + 1, bitWidth))]

RECURSIVE StreamMsbFirst(_, _, _)
StreamMsbFirst(subSegment, minDataId, bitWidth) ==
    IF subSegment = <<>> THEN <<>>
    ELSE FieldsMsbFirst(subSegment[1], minDataId, bitWidth)
         \o StreamMsbFirst(Tail(subSegment), minDataId, bitWidth)

\* C14: each non-shortcut 64-bit sub-segment word is unpacked MSB-first into
\* fields of bitWidth bits, 64/bitWidth fields per word, and each field plus
\* the minimum dictionary id is appended to the bit-packed stream in that order.
C14_FieldsUnpackedMsbFirst ==
    (fPc # "idf" /\ Unpacked) =>
        fOut.bitpackedValues =
            StreamMsbFirst(fIn.idfData.subSegment, fIn.meta.minDataId, fIn.meta.bitWidth)

\* the word 0x0123456709ABCDEF at 8 bits and minimum id 100: the stream
\* starts with the least significant byte, 100 + 0xEF, and ends with 100 + 0x01
C14_LeastSignificantFieldFirst ==
    /\ fPc = "unpacked"
    /\ fIn.idfData.subSegment = <<WordOf(<<1, 35, 69, 103, 9, 171, 205, 239>>)>>
    /\ fIn.meta.bitWidth = 8 /\ fIn.meta.countBitPacked = 3
    /\ fOut.bitpackedValues =
          <<Id(339), Id(305), Id(271), Id(109), Id(203), Id(169), Id(135), Id(101)>>

RECURSIVE CursorAt(_, _)
\* the bit-pack cursor before the k-th entry: the repeat counts of the
\* entries before it that opened a bit-packed run
CursorAt(p, k) ==
    IF k = 1 THEN 0
    ELSE CursorAt(p, k - 1)
         + (IF PlusCursor(p[k - 1].dataValue, CursorAt(p, k - 1)) = Sentinel
            THEN p[k - 1].repeatValue ELSE 0)

\* what the k-th entry emits: the next repeat ids of the stream, as far as
\* the stream reaches, or its literal value repeat times
Emitted(p, stream, k) ==
    IF PlusCursor(p[k].dataValue, CursorAt(p, k)) = Sentinel
    THEN [i \in 1..(Min(CursorAt(p, k) + p[k].repeatValue, Len(stream)) - Min(CursorAt(p, k), Len(stream)))
            |-> stream[CursorAt(p, k) + i]]
    ELSE [i \in 1..p[k].repeatValue |-> p[k].dataValue]

RECURSIVE EmittedUpTo(_, _, _)
EmittedUpTo(p, stream, k) ==
    IF k = 0 THEN <<>> ELSE EmittedUpTo(p, stream, k - 1) \o Emitted(p, stream, k)

\* the primary segment [(0xFFFFFFFF, 3), (7, 2)]
ExamplePrimary ==
    <<[dataValue |-> Sentinel, repeatValue |-> 3], [dataValue |-> Id(7), repeatValue |-> 2]>>

\* C15: decodeRleBitPackedHybrid expands the primary segment in order: an
\* entry whose value plus the running bit-pack cursor equals 0xFFFFFFFF emits
\* the next repeat ids of the bit-packed stream and advances the cursor by
\* repeat; every other entry emits its literal value repeat times. The
\* primary segment [(0xFFFFFFFF,3),(7,2)] over a stream that starts
\* 100, 101, 102 yields [100,101,102,7,7].
C15_PrimarySegmentExpandedInOrder ==
    fPc = "decoded" =>
        /\ fOut.vector = EmittedUpTo(fIn.idfData.primarySegment, fOut.bitpackedValues,
                                     Len(fIn.idfData.primarySegment))
        /\ (/\ fIn.idfData.primarySegment = ExamplePrimary
            /\ Len(fOut.bitpackedValues) >= 3
            /\ SubSeq(fOut.bitpackedValues, 1, 3) = <<Id(100), Id(101), Id(102)>>)
           => fOut.vector = <<Id(100), Id(101), Id(102), Id(7), Id(7)>>

\* the example of the claim, its stream unpacked from one word of 16-bit fields
C15_ExampleDecoded ==
    /\ fPc = "decoded"
    /\ fIn.idfData.primarySegment = ExamplePrimary
    /\ fIn.meta.bitWidth = 16
    /\ fOut.bitpackedValues = <<Id(100), Id(101), Id(102), Id(103)>>
    /\ fOut.vector = <<Id(100), Id(101), Id(102), Id(7), Id(7)>>

\* a second run, opened by 0xFFFFFFFC at the cursor 3, goes on in the stream
\* where the first one stopped
C15_SecondRunFollowsCursor ==
    /\ fPc = "decoded"
    /\ fIn.idfData.primarySegment =
          <<[dataValue |-> Sentinel, repeatValue |-> 3],
            [dataValue |-> [hi |-> 65535, lo |-> 65532], repeatValue |-> 2]>>
    /\ fIn.meta.bitWidth = 16
    /\ fOut.bitpackedValues = <<Id(100), Id(101), Id(102), Id(103)>>
    /\ fOut.vector = <<Id(100), Id(101), Id(102), Id(103)>>

(***************************************************************************)
(* Numeric dictionaries: readDictionary and readNumericDictionary, app.js  *)
(* 1283-1293 and 1396-1416, and their use by _extractColumn, 1440-1449.    *)
(* A DataView read that passes the end of the buffer throws a RangeError.  *)
(***************************************************************************)
\* the little-endian bytes of a signed 32-bit value
LE32(n) ==
    IF n >= 0 THEN U32(n)
    ELSE LET u == U32(n + 2147483647 + 1) IN [u EXCEPT ![4] = @ + 128]

\* the little-endian bytes of a signed 64-bit value of 32-bit size
LE64(n) == LE32(n) \o (IF n >= 0 THEN <<0, 0, 0, 0>> ELSE <<255, 255, 255, 255>>)

\* dv.getInt32(pos, true), the four bytes being there
getInt32(buf, pos) ==
    LET low == buf[pos + 1] + 256 * buf[pos + 2] + 65536 * buf[pos + 3]
               + 16777216 * (buf[pos + 4] % 128)
    IN  IF buf[pos + 4] >= 128 THEN low - 2147483647 - 1 ELSE low

\* Number(dv.getBigInt64(pos, true)) and Number(dv.getBigUint64(pos, true)),
\* the eight bytes being there: a value that does not fit 32 bits is Huge
getBigInt64(buf, pos) ==
    LET high == SubSeq(buf, pos + 5, pos + 8)
    IN  IF (high = <<0, 0, 0, 0>> /\ buf[pos + 4] < 128)
           \/ (high = <<255, 255, 255, 255>> /\ buf[pos + 4] >= 128)
        THEN getInt32(buf, pos) ELSE Huge

getBigUint64(buf, pos) ==
    IF SubSeq(buf, pos + 5, pos + 8) = <<0, 0, 0, 0>> /\ buf[pos + 4] < 128
    THEN getInt32(buf, pos) ELSE Huge

\* a key counted from 1
DictKeyFromOne(minDataId, i) == minDataId + i + 1

\* the key of the i-th entry, i from 0: dict.set(minDataId + i, val) (app.js 1412)
DictKey(minDataId, i) == minDataId + i

RECURSIVE readEntries(_, _, _, _, _, _, _)
\* the loop of readNumericDictionary from its i-th turn (app.js 1403-1413),
\* i the number of entries set so far
readEntries(buf, pos, minDataId, dictType, elemSize, count, dict) ==
    LET i == Cardinality(DOMAIN dict)
        size == IF elemSize = 4 THEN 4 ELSE 8
    IN  IF i >= count THEN [threw |-> FALSE, dict |-> dict]
        ELSE IF pos + size > Len(buf) THEN [threw |-> TRUE, dict |-> dict]
        ELSE LET val == IF elemSize = 4 THEN Num(getInt32(buf, pos))
                        ELSE IF elemSize = 8 /\ dictType = 0 THEN Num(getBigInt64(buf, pos))
                        ELSE BytesVal("float", SubSeq(buf, pos + 1, pos + 8))
             IN  readEntries(buf, pos + size, minDataId, dictType, elemSize, count,
                             [id \in DOMAIN dict \cup {DictKey(minDataId, i)} |->
                                 IF id = DictKey(minDataId, i) THEN val ELSE dict[id]])

\* the dictionary with no entry
EmptyMap == [id \in {} |-> Null]

\* readNumericDictionary (app.js 1396-1416)
readNumericDictionary(buf, pos, minDataId, dictType) ==
    IF pos + 12 > Len(buf) THEN [threw |-> TRUE, dict |-> EmptyMap]
    ELSE readEntries(buf, pos + 12, minDataId, dictType, readU32(buf, pos + 8),
                     getBigUint64(buf, pos), EmptyMap)

\* readDictionary (app.js 1283-1293) for the numeric types and the types it
\* does not know; the string dictionaries are not among the inputs
readDictionary(buf, minDataId) ==
    IF Len(buf) < 4 THEN [threw |-> TRUE, dict |-> EmptyMap]
    ELSE LET dictType == getInt32(buf, 0)
         IN  IF dictType = 0 \/ dictType = 1
             THEN readNumericDictionary(buf, 28, minDataId, dictType)
             ELSE [threw |-> FALSE, dict |-> EmptyMap]

\* the mapping of the ids through the dictionary (app.js 1444-1448); the
\* columns of float entries among the inputs have a type that converts nothing
resolveIds(indices, dict, dataType) ==
    [p \in 1..Len(indices) |->
        IF indices[p].v \in DOMAIN dict
        THEN IF dict[indices[p].v].k = "num"
             THEN convertColumnValue(dict[indices[p].v].v, dataType)
             ELSE dict[indices[p].v]
        ELSE Null]

\* the dictionary branch of _extractColumn (app.js 1440-1449): a throw of the
\* read leaves the ids as they are
resolveColumn(indices, dictBuf, minDataId, dataType) ==
    LET r == readDictionary(dictBuf, minDataId)
    IN  IF r.threw THEN indices ELSE resolveIds(indices, r.dict, dataType)

(***************************************************************************)
(* SpecDict: the resolution of bounded index vectors through bounded       *)
(* dictionary files                                                        *)
(***************************************************************************)
\* most ids of an index vector
MaxIds == 2

RECURSIVE EntryBytes(_, _)
\* the stored entries, each of elemSize bytes
EntryBytes(elemSize, entries) ==
    IF entries = <<>> THEN <<>>
    ELSE (IF elemSize = 4 THEN LE32(entries[1]) ELSE LE64(entries[1]))
         \o EntryBytes(elemSize, Tail(entries))

\* a dictionary file: the type, 24 bytes of hash information, the declared
\* count, the element size, the stored entries
DictFile(dictType, elemSize, count, entries) ==
    LE32(dictType) \o ZeroBytes(24) \o LE64(count) \o LE32(elemSize)
    \o EntryBytes(elemSize, entries)

\* the stored entries of the dictionaries, and the files: of the two numeric
\* types and of a type readDictionary does not know, of either element
\* size, whole or one entry short of the declared count
DEntryLists == {<<>>, <<10, 20, 30>>, <<10000, -20000>>, <<-1>>}

DFiles ==
    {[dictType |-> t, elemSize |-> e, entries |-> es, short |-> sh,
      buf |-> DictFile(t, e, Len(es) + (IF sh THEN 1 ELSE 0), es)] :
        t \in {0, 1, 3}, e \in {4, 8}, es \in DEntryLists, sh \in BOOLEAN}

\* the index vectors: the one of the example, and the short ones over ids in
\* and around the range
IdVectors ==
    {<<Num(50), Num(51), Num(52), Num(50)>>}
    \cup ListsOf({Num(49), Num(50), Num(51), Num(52), Num(53)}, MaxIds)

\* the entries of the file are 64-bit floats
FloatEntries(f) == f.elemSize = 8 /\ f.dictType = 1

\* columns of the type 6, which converts nothing, and of the currency type
\* 10, the latter over integer entries that 10000 divides
DInputs ==
    {[file |-> f, minDataId |-> m, indices |-> v, dataType |-> 6] :
        f \in DFiles, m \in {50, 51}, v \in IdVectors}
    \cup
    {[file |-> f, minDataId |-> m, indices |-> v, dataType |-> 10] :
        f \in {g \in DFiles : ~FloatEntries(g) /\ g.entries \in {<<>>, <<10000, -20000>>}},
        m \in {50, 51}, v \in IdVectors}

InitDict ==
    /\ fIn \in DInputs
    /\ fPc = "dictionary"
    /\ fOut = [read |-> [threw |-> FALSE, dict |-> EmptyMap], values |-> <<>>]
    /\ IdleM /\ IdleD /\ IdleX /\ IdleC /\ IdleA

\* readDictionary(dictBuf, meta.minDataId) (app.js 1444)
DictRead ==
    /\ fPc = "dictionary"
    /\ fOut' = [fOut EXCEPT !.read = readDictionary(fIn.file.buf, fIn.minDataId)]
    /\ fPc' = "read"
    /\ UNCHANGED fIn
    /\ UNCHANGED <<varsM, varsD, varsX, varsC, varsA>>

\* the values of the column are returned (app.js 1445-1449)
DictResolve ==
    /\ fPc = "read"
    /\ fOut' = [fOut EXCEPT !.values = IF fOut.read.threw THEN fIn.indices
                                       ELSE resolveIds(fIn.indices, fOut.read.dict, fIn.dataType)]
    /\ fPc' = "resolved"
    /\ UNCHANGED fIn
    /\ UNCHANGED <<varsM, varsD, varsX, varsC, varsA>>

NextDict == DictRead \/ DictResolve

SpecDict == InitDict /\ [][NextDict]_vars

(***************************************************************************)
(* Properties of the dictionary resolution (SpecDict)                      *)
(***************************************************************************)
\* a numeric dictionary that holds all the entries it declares
WholeNumeric(f) == f.dictType \in {0, 1} /\ ~f.short

\* the i-th stored entry of the file, i from 1
Stored(f, i) ==
    IF FloatEntries(f) THEN BytesVal("float", LE64(f.entries[i])) ELSE Num(f.entries[i])

\* the value of a column of the type for a stored entry
Coerced(entry, dataType) ==
    IF entry.k = "num" /\ dataType = 10 THEN Num(entry.v \div 10000) ELSE entry

\* C16: a numeric dictionary with n entries read with minimum id m maps
\* exactly the contiguous ids m..m+n-1, id m+i to the i-th stored entry;
\* resolving an index vector through it yields per position the entry at
\* id - m, in the type of the column, and an id outside the range resolves to
\* null without raising.
C16_NumericDictionaryResolution ==
    LET f == fIn.file
        m == fIn.minDataId
        n == Len(f.entries)
    IN  (fPc # "dictionary" /\ WholeNumeric(f)) =>
            /\ ~fOut.read.threw
            /\ DOMAIN fOut.read.dict = m..(m + n - 1)
            /\ \A i \in 0..(n - 1) : fOut.read.dict[m + i] = Stored(f, i + 1)
            /\ fPc = "resolved" =>
                  /\ Len(fOut.values) = Len(fIn.indices)
                  /\ \A p \in 1..Len(fIn.indices) :
                        LET id == fIn.indices[p].v
                        IN  fOut.values[p] = IF id >= m /\ id <= m + n - 1
                                             THEN Coerced(Stored(f, id - m + 1), fIn.dataType)
                                             ELSE Null

\* the example: the ids [50,51,52,50] over the entries [10,20,30] with the
\* minimum id 50 give [10,20,30,10]
C16_ExampleResolved ==
    /\ fPc = "resolved"
    /\ fIn.file.dictType = 0 /\ fIn.file.elemSize = 4 /\ ~fIn.file.short
    /\ fIn.file.entries = <<10, 20, 30>>
    /\ fIn.minDataId = 50 /\ fIn.dataType = 6
    /\ fIn.indices = <<Num(50), Num(51), Num(52), Num(50)>>
    /\ fOut.values = <<Num(10), Num(20), Num(30), Num(10)>>

\* ids on either side of the range resolve to null
C16_OutsideRangeNull ==
    /\ fPc = "resolved"
    /\ WholeNumeric(fIn.file) /\ fIn.file.entries = <<10, 20, 30>>
    /\ fIn.minDataId = 50
    /\ fIn.indices = <<Num(49), Num(53)>>
    /\ fOut.values = <<Null, Null>>

(***************************************************************************)
(* buildHuffmanTree: app.js 1223-1251. A node of the tree is the sequence  *)
(* of bits that leads to it from the root, 0 for left and 1 for right.     *)
(***************************************************************************)
\* the sorted array (app.js 1224-1228): the pairs of the symbols of non-zero
\* length, by length and then by symbol
RECURSIVE SortPairs(_)
SortPairs(pairs) ==
    IF pairs = {} THEN <<>>
    ELSE LET first == CHOOSE a \in pairs :
                         \A b \in pairs : a[1] < b[1] \/ (a[1] = b[1] /\ a[2] <= b[2])
         IN  <<first>> \o SortPairs(pairs \ {first})

sortedOf(encodeArray) ==
    SortPairs({<<encodeArray[ch], ch>> : ch \in {x \in DOMAIN encodeArray : encodeArray[x] # 0}})

\* code <<= n, left out
KeepCode(code, n) == code

\* code <<= n (app.js 1234)
ShiftCode(code, n) == code * (2 ^ n)

\* the nodes the walk of app.js 1238-1246 visits below the root: bit len-1
\* of the code first
PathOf(code, len) == [j \in 1..len |-> (code \div (2 ^ (len - j))) % 2]

Prefixes(path) == {SubSeq(path, 1, n) : n \in 0..Len(path)}

\* one turn of the loop over sorted (app.js 1232-1248)
insertSymbol(tree, len, ch) ==
    LET code == IF tree.lastLen # len THEN ShiftCode(tree.code, len - tree.lastLen)
                ELSE tree.code
        path == PathOf(code, len)
    IN  [nodes |-> tree.nodes \cup Prefixes(path),
         c |-> [p \in DOMAIN tree.c \cup {path} |-> IF p = path THEN ch ELSE tree.c[p]],
         code |-> code + 1,
         lastLen |-> len]

\* the tree of the root alone (app.js 1230-1231)
RootOnly == [nodes |-> {<<>>}, c |-> [p \in {} |-> 0], code |-> 0, lastLen |-> 0]

RECURSIVE insertAll(_, _, _)
insertAll(tree, sorted, k) ==
    IF k > Len(sorted) THEN tree
    ELSE insertAll(insertSymbol(tree, sorted[k][1], sorted[k][2]), sorted, k + 1)

\* buildHuffmanTree (app.js 1223-1251)
buildHuffmanTree(encodeArray) == insertAll(RootOnly, sortedOf(encodeArray), 1)

(***************************************************************************)
(* SpecHuff: buildHuffmanTree on bounded tables of code lengths            *)
(***************************************************************************)
\* the longest code length of the tables
MaxCodeLen == 3

\* the symbols of non-zero length: A, B, C, D
HSymbols == {65, 66, 67, 68}

\* the tables: every other symbol has the length 0
HTables == [HSymbols -> 0..MaxCodeLen]

InitH ==
    /\ fIn \in HTables
    /\ fPc = "table"
    /\ fOut = [sorted |-> <<>>, k |-> 1, tree |-> RootOnly]
    /\ IdleM /\ IdleD /\ IdleX /\ IdleC /\ IdleA

\* the symbols are collected and sorted (app.js 1224-1228)
HSort ==
    /\ fPc = "table"
    /\ fOut' = [fOut EXCEPT !.sorted = sortedOf(fIn)]
    /\ fPc' = "codes"
    /\ UNCHANGED fIn
    /\ UNCHANGED <<varsM, varsD, varsX, varsC, varsA>>

\* one symbol is given its code and its node (app.js 1232-1248)
HInsert ==
    /\ fPc = "codes"
    /\ fOut.k <= Len(fOut.sorted)
    /\ fOut' = [fOut EXCEPT !.tree = insertSymbol(@, fOut.sorted[fOut.k][1], fOut.sorted[fOut.k][2]),
                            !.k = @ + 1]
    /\ UNCHANGED <<fIn, fPc>>
    /\ UNCHANGED <<varsM, varsD, varsX, varsC, varsA>>

\* the root is returned (app.js 1249)
HReturn ==
    /\ fPc = "codes"
    /\ fOut.k > Len(fOut.sorted)
    /\ fPc' = "built"
    /\ UNCHANGED <<fIn, fOut>>
    /\ UNCHANGED <<varsM, varsD, varsX, varsC, varsA>>

NextH == HSort \/ HInsert \/ HReturn

SpecHuff == InitH /\ [][NextH]_vars

(***************************************************************************)
(* SpecHuff: properties                                                    *)
(***************************************************************************)
Coded == {ch \in HSymbols : fIn[ch] # 0}

\* Kraft's inequality, in units of 2^-MaxCodeLen
RECURSIVE KraftSum(_)
KraftSum(S) ==
    IF S = {} THEN 0
    ELSE LET ch == CHOOSE x \in S : TRUE
         IN  (2 ^ (MaxCodeLen - fIn[ch])) + KraftSum(S \ {ch})

Kraft == KraftSum(Coded) <= 2 ^ MaxCodeLen

\* the nodes labelled with a symbol
NodesOf(ch) == {p \in DOMAIN fOut.tree.c : fOut.tree.c[p] = ch}

IsLeaf(p) == \A q \in fOut.tree.nodes : Len(q) > Len(p) => SubSeq(q, 1, Len(p)) # p

IsPrefix(p, q) == Len(p) <= Len(q) /\ SubSeq(q, 1, Len(p)) = p

\* the value of a code read as a binary number
RECURSIVE CodeValue(_)
CodeValue(p) == IF p = <<>> THEN 0 ELSE 2 * CodeValue(SubSeq(p, 1, Len(p) - 1)) + p[Len(p)]

\* the code of a is before the code of b among the canonical codes: its
\* value, extended with zeros to the length of the other, is smaller
CodeBefore(p, q) == Len(p) <= Len(q) /\ CodeValue(p) * (2 ^ (Len(q) - Len(p))) < CodeValue(q)

\* C17: for a table of lengths that satisfies Kraft's inequality, the tree
\* buildHuffmanTree returns holds every symbol of non-zero length at exactly
\* one node, that node is a leaf whose depth is the length of the symbol, the
\* codes increase in the order of (length, symbol) with the shorter codes
\* first, and no code is a prefix of another
C17_CanonicalPrefixFreeCodes ==
    (fPc = "built" /\ Kraft) =>
        /\ \A ch \in Coded :
              \E p \in fOut.tree.nodes :
                 /\ NodesOf(ch) = {p}
                 /\ Len(p) = fIn[ch]
                 /\ IsLeaf(p)
        /\ \A ch \in HSymbols \ Coded : NodesOf(ch) = {}
        /\ \A a, b \in Coded :
              (fIn[a] < fIn[b] \/ (fIn[a] = fIn[b] /\ a < b)) =>
                 \A p \in NodesOf(a), q \in NodesOf(b) :
                    /\ CodeBefore(p, q)
                    /\ ~IsPrefix(p, q)
                    /\ ~IsPrefix(q, p)

\* C17 witness: the lengths A:1, B:2, C:2 give the codes A=0, B=10, C=11
C17_ExampleCodes ==
    /\ fPc = "built"
    /\ fIn = [ch \in HSymbols |-> CASE ch = 65 -> 1 [] ch = 66 -> 2 [] ch = 67 -> 2 [] OTHER -> 0]
    /\ NodesOf(65) = {<<0>>}
    /\ NodesOf(66) = {<<1, 0>>}
    /\ NodesOf(67) = {<<1, 1>>}

\* a full table of four codes of three different lengths is built
C17_FullTableBuilt ==
    /\ fPc = "built"
    /\ Kraft
    /\ KraftSum(Coded) = 2 ^ MaxCodeLen
    /\ Cardinality(Coded) = 4
    /\ \E ch \in Coded : fIn[ch] = MaxCodeLen

\* outside Kraft's inequality the codes run over their length and a later
\* symbol takes the node of an earlier one
C17_OverfullTableCollides ==
    /\ fPc = "built"
    /\ ~Kraft
    /\ \E ch \in Coded : NodesOf(ch) = {}

(***************************************************************************)
(* SpecStrip: stripCS applied to every short text over the characters that *)
(* open and close strings, comments and quoted identifiers                 *)
(***************************************************************************)
\* the longest text
MaxChars == 5

\* the characters of the texts
StripChars == {Q, "#", "/", "*", NL, "a"}

StripTexts == UNION {[1..n -> StripChars] : n \in 0..MaxChars}

InitStrip ==
    /\ fIn \in StripTexts
    /\ fPc = "text"
    /\ fOut = <<>>
    /\ IdleM /\ IdleD /\ IdleX /\ IdleC /\ IdleA

\* stripCS(code) (app.js 204)
StripText ==
    /\ fPc = "text"
    /\ fOut' = stripCS(fIn)
    /\ fPc' = "stripped"
    /\ UNCHANGED fIn
    /\ UNCHANGED <<varsM, varsD, varsX, varsC, varsA>>

NextStrip == StripText

SpecStrip == InitStrip /\ [][NextStrip]_vars

(***************************************************************************)
(* SpecStrip: properties                                                   *)
(***************************************************************************)
RECURSIVE Regions(_, _, _)
\* the lexical region of every character from position i on, the scan
\* being in the given region there: "code", "qid" (a #"..." identifier with
\* its delimiters), "string" (a "..." literal with its quotes), "block"
\* (/* ... */) and "line" (// up to the line break). A doubled quote inside
\* a string or a quoted identifier stays inside it; an unterminated region
\* runs to the end of the text. The regions named with a + are those of the
\* second character of a two-character delimiter or doubled quote.
Regions(code, i, in) ==
    CASE i > Len(code) -> <<>>
      [] i <= Len(code) /\ in = "qid+" -> <<"qid">> \o Regions(code, i + 1, "qid")
      [] i <= Len(code) /\ in = "string+" -> <<"string">> \o Regions(code, i + 1, "string")
      [] i <= Len(code) /\ in = "block+" -> <<"block">> \o Regions(code, i + 1, "block")
      [] i <= Len(code) /\ in = "close+" -> <<"block">> \o Regions(code, i + 1, "code")
      [] i <= Len(code) /\ in = "line+" -> <<"line">> \o Regions(code, i + 1, "line")
      [] i <= Len(code) /\ in = "code" /\ At(code, i) = "#" /\ At(code, i + 1) = Q ->
            <<"qid">> \o Regions(code, i + 1, "qid+")
      [] i <= Len(code) /\ in = "code" /\ At(code, i) = Q ->
            <<"string">> \o Regions(code, i + 1, "string")
      [] i <= Len(code) /\ in = "code" /\ At(code, i) = "/" /\ At(code, i + 1) = "*" ->
            <<"block">> \o Regions(code, i + 1, "block+")
      [] i <= Len(code) /\ in = "code" /\ At(code, i) = "/" /\ At(code, i + 1) = "/" ->
            <<"line">> \o Regions(code, i + 1, "line+")
      [] i <= Len(code) /\ in = "code" /\ At(code, i) # Q
            /\ ~(At(code, i) = "#" /\ At(code, i + 1) = Q)
            /\ ~(At(code, i) = "/" /\ At(code, i + 1) \in {"*", "/"}) ->
            <<"code">> \o Regions(code, i + 1, "code")
      [] i <= Len(code) /\ in = "qid" /\ At(code, i) = Q /\ At(code, i + 1) = Q ->
            <<"qid">> \o Regions(code, i + 1, "qid+")
      [] i <= Len(code) /\ in = "qid" /\ At(code, i) = Q /\ At(code, i + 1) # Q ->
            <<"qid">> \o Regions(code, i + 1, "code")
      [] i <= Len(code) /\ in = "qid" /\ At(code, i) # Q ->
            <<"qid">> \o Regions(code, i + 1, "qid")
      [] i <= Len(code) /\ in = "string" /\ At(code, i) = Q /\ At(code, i + 1) = Q ->
            <<"string">> \o Regions(code, i + 1, "string+")
      [] i <= Len(code) /\ in = "string" /\ At(code, i) = Q /\ At(code, i + 1) # Q ->
            <<"string">> \o Regions(code, i + 1, "code")
      [] i <= Len(code) /\ in = "string" /\ At(code, i) # Q ->
            <<"string">> \o Regions(code, i + 1, "string")
      [] i <= Len(code) /\ in = "block" /\ At(code, i) = "*" /\ At(code, i + 1) = "/" ->
            <<"block">> \o Regions(code, i + 1, "close+")
      [] i <= Len(code) /\ in = "block" /\ ~(At(code, i) = "*" /\ At(code, i + 1) = "/") ->
            <<"block">> \o Regions(code, i + 1, "block")
      [] i <= Len(code) /\ in = "line" /\ At(code, i) = NL ->
            <<"code">> \o Regions(code, i + 1, "code")
      [] OTHER -> <<"line">> \o Regions(code, i + 1, "line")

RegionOf == Regions(fIn, 1, "code")

\* C18: for every text, terminated or not, the output of stripCS has the
\* length of the input, every character outside strings and comments is
\* the same at the same index, every character of a string or a comment
\* is replaced by white space, and every #"..." identifier is copied
C18_StripKeepsPositions ==
    fPc = "stripped" =>
        /\ Len(fOut) = Len(fIn)
        /\ \A i \in 1..Len(fIn) :
              /\ RegionOf[i] \in {"code", "qid"} => fOut[i] = fIn[i]
              /\ RegionOf[i] \in {"string", "block", "line"} => fOut[i] \in {" ", NL}

\* C18 witness: an unterminated string that holds a comment opener and a
\* line break is blanked to the end, the line break kept
C18_UnterminatedStringBlanked ==
    /\ fPc = "stripped"
    /\ fIn = <<"a", Q, "/", "/", NL>>
    /\ fOut = <<"a", " ", " ", " ", NL>>

\* a quoted identifier that holds a comment opener is copied
C18_QuotedIdentifierCopied ==
    /\ fPc = "stripped"
    /\ fIn = <<"#", Q, "/", "*", Q>>
    /\ fOut = fIn

\* an unterminated block comment is blanked to the end, its line break kept
C18_UnterminatedCommentBlanked ==
    /\ fPc = "stripped"
    /\ fIn = <<"a", "/", "*", NL, "a">>
    /\ fOut = <<"a", " ", " ", NL, " ">>

\* a line comment ends at the line break and the text after it is kept
C18_LineCommentEnds ==
    /\ fPc = "stripped"
    /\ fIn = <<"/", "/", Q, NL, "a">>
    /\ fOut = <<" ", " ", " ", NL, "a">>

(***************************************************************************)
(* SpecM: the declarations of a module text and the queries returned       *)
(***************************************************************************)
\* the module text parsed, without its byte order mark
ModuleCode == IF At(TextOf(mText), 1) = BOM THEN Tail(TextOf(mText)) ELSE TextOf(mText)

\* the positions at which a declaration  shared <identifier> =  begins outside
\* strings, comments and quoted identifiers, in the order of the text
DeclStarts(code) ==
    LET region == Regions(code, 1, "code")
        at == {i \in 1..Len(code) :
                  /\ region[i] = "code"
                  /\ WordBoundary(code, i)
                  /\ DeclParts(code, i).ok}
    IN  SortPairs({<<i, i>> : i \in at})

\* the body of the declaration at s that ends before position e: the text
\* after the "=", cut at the last ";" outside strings, comments and quoted
\* identifiers, without the white space around it
DeclBody(code, s, e) ==
    LET region == Regions(code, 1, "code")
        from == s + DeclParts(SubSeq(code, s, Len(code)), 1).end - 1
        ends == {i \in from..e - 1 : code[i] = ";" /\ region[i] = "code"}
        last == IF ends = {} THEN e ELSE CHOOSE i \in ends : \A j \in ends : j <= i
    IN  Join(Trim(SubSeq(code, from, last - 1)))

\* C19: a module text with k declarations  shared <identifier> =  outside
\* strings, comments and quoted identifiers (k at least 1) gives exactly k
\* queries, in the order of the declarations, each with the declared name and
\* with the body that runs from after the "=" to the next declaration or to
\* the end of the text, cut at the last statement terminator
C19_OneQueryPerDeclaration ==
    (mPc = "module" /\ DeclStarts(ModuleCode) # <<>>) =>
        LET code == ModuleCode
            starts == DeclStarts(code)
        IN  /\ Len(mQueries) = Len(starts)
            /\ \A k \in 1..Len(starts) :
                  LET s == starts[k][1]
                      e == IF k < Len(starts) THEN starts[k + 1][1] ELSE Len(code) + 1
                      nm == DeclParts(SubSeq(code, s, Len(code)), 1)
                  IN  /\ mQueries[k].name = DeclName(SubSeq(code, s + nm.nameFrom - 1, s + nm.nameTo - 1))
                      /\ mQueries[k].code = DeclBody(code, s, e)

\* C19, observed: the text  shared A = #"shared B = 1";  holds one declaration
\* and gives two queries, A with the body  #"  and B with the body  1"
C19_QuotedIdentifierSplit ==
    /\ mPc = "module"
    /\ mText = <<TextQuoted>>
    /\ Len(DeclStarts(ModuleCode)) = 1
    /\ Len(mQueries) = 2
    /\ mQueries[1].name = "A"
    /\ mQueries[1].code = Join(<<"#", Q>>)
    /\ mQueries[2].name = "B"
    /\ mQueries[2].code = Join(<<"1", Q>>)

\* the texts of the two scenarios and the texts with one or two declarations
\* and no quoted identifier around them give one query per declaration
C19_TwoDeclarationsTwoQueries ==
    /\ mPc = "module"
    /\ mText = <<TextAB>>
    /\ Len(DeclStarts(ModuleCode)) = 2
    /\ Len(mQueries) = 2
    /\ mQueries[1].name = "A"
    /\ mQueries[2].name = "B"
    /\ mQueries[2].code = "1"

(***************************************************************************)
(* SpecRun: one run of processFiles, from its loop on, over every list of  *)
(* supported files                                                         *)
(***************************************************************************)
\* the lists processFiles is called with (app.js 563, 566): not empty, every
\* name a supported one
RunInputs == {Supported(files) : files \in FileLists(MaxFiles)} \ {<<>>}

\* processFiles at the head of its loop (app.js 436-438)
InitRun ==
    /\ aInput \in RunInputs
    /\ aState = EmptyAppState
    /\ aRuns = [pc |-> "loop", i |-> 1, dropZone |-> FALSE, calls |-> <<>>]
    /\ IdleM /\ IdleD /\ IdleX /\ IdleC /\ IdleF

NextRun == AProcessFile \/ AFinish

SpecRun == InitRun /\ [][NextRun]_vars

(***************************************************************************)
(* SpecRun: the size limit                                                 *)
(***************************************************************************)
\* the file the loop of processFiles is at
AtFile == aInput[aRuns.i]

\* the loop of processFiles is at a file that is larger than the limit
AtOversized ==
    /\ aRuns.pc = "loop"
    /\ aRuns.i <= Len(aInput)
    /\ AtFile.size > MAX_FILE_SIZE

\* C20: the turn of the loop of processFiles for a file of more than 150 MiB
\* calls no parser and no table reader, adds no query, no file entry and no
\* worksheet, adds exactly one error entry, which names the file, and leaves
\* the loop at the next file
C20_OversizedFileRejected ==
    [][AtOversized =>
          /\ aRuns'.calls = aRuns.calls
          /\ aState'.queries = aState.queries
          /\ aState'.files = aState.files
          /\ aState'.worksheets = aState.worksheets
          /\ Len(aState'.errors) = Len(aState.errors) + 1
          /\ SubSeq(aState'.errors, 1, Len(aState.errors)) = aState.errors
          /\ aState'.errors[Len(aState'.errors)].file = AtFile.name
          /\ aRuns'.pc = "loop"
          /\ aRuns'.i = aRuns.i + 1
          /\ aInput' = aInput]_vars

\* C20 witness: a file of more than 150 MiB followed by a readable one: the
\* loop has passed both, the first left one error entry and no call, the
\* second was parsed and gave its query and its worksheet
C20_OversizedThenNext ==
    /\ LoopDone
    /\ Len(aInput) = 2
    /\ aInput[1].size > MAX_FILE_SIZE
    /\ aInput[2].size <= MAX_FILE_SIZE
    /\ aState.errors = <<[file |-> aInput[1].name, msg |-> "Too large (>150MB)"]>>
    /\ aRuns.calls = <<[file |-> 2, fn |-> "parseXlsxFile"], [file |-> 2, fn |-> "extractWorksheetData"]>>
    /\ aState.files = <<aInput[2].name>>
    /\ Len(aState.queries) = 1
    /\ Len(aState.worksheets) = 1

\* a file of exactly 150 MiB is not rejected
C20_AtLimitParsed ==
    /\ LoopDone
    /\ Len(aInput) = 1
    /\ aInput[1].size = MAX_FILE_SIZE
    /\ aState.errors = <<>>
    /\ aState.files = <<aInput[1].name>>
    /\ aRuns.calls # <<>>

(***************************************************************************)
(* SpecYield: the three long scans as they run on the thread of the page:  *)
(* findPK (app.js 132), the loop over the cells of a leaf page in          *)
(* readTable (xpress9_wasm.c 353-361) and the loop over the pages of       *)
(* readStringDictionary (app.js 1305-1344). fOut.i is the loop variable,   *)
(* fOut.run the iterations made since the thread was last given up. None   *)
(* of the three functions is async and none holds an await or a timer, so  *)
(* no step of a scan gives the thread up.                                  *)
(***************************************************************************)
\* most iterations a scan of the model is asked for
MaxScan == 8

\* n bytes that begin no signature
Filler(n) == [k \in 1..n |-> 0]

\* the scans: findPK over some filler followed by nothing, by four bytes more
\* or by an archive; readTable over a leaf page of n cells;
\* readStringDictionary over n pages
YInputs ==
    {[scan |-> "findPK", b |-> Filler(k) \o t, n |-> 0] :
        k \in 0..MaxScan, t \in {<<>>, Filler(4), ZipSig \o <<1, 1>>}}
    \cup {[scan |-> sc, b |-> <<>>, n |-> k] :
             sc \in {"readTable", "readStringDictionary"}, k \in 0..MaxScan}

InitY ==
    /\ fIn \in YInputs
    /\ fPc = "scan"
    /\ fOut = [i |-> 0, run |-> 0, result |-> -1]
    /\ IdleM /\ IdleD /\ IdleX /\ IdleC /\ IdleA

\* one iteration of findPK that finds no signature (app.js 132)
YFindPKNext ==
    /\ fPc = "scan" /\ fIn.scan = "findPK"
    /\ fOut.i < Len(fIn.b) - 4
    /\ ~SigAt(fIn.b, fOut.i)
    /\ fOut' = [fOut EXCEPT !.i = @ + 1, !.run = @ + 1]
    /\ UNCHANGED <<fIn, fPc>>
    /\ UNCHANGED <<varsM, varsD, varsX, varsC, varsA>>

\* findPK returns: the offset of the signature, or -1 at the end (app.js 132)
YFindPKReturn ==
    /\ fPc = "scan" /\ fIn.scan = "findPK"
    /\ \/ ~(fOut.i < Len(fIn.b) - 4) /\ fOut' = [fOut EXCEPT !.result = -1]
       \/ fOut.i < Len(fIn.b) - 4 /\ SigAt(fIn.b, fOut.i)
          /\ fOut' = [fOut EXCEPT !.result = fOut.i, !.run = @ + 1]
    /\ fPc' = "returned"
    /\ UNCHANGED fIn
    /\ UNCHANGED <<varsM, varsD, varsX, varsC, varsA>>

\* one cell of a leaf page (xpress9_wasm.c 354-361)
YReadTableCell ==
    /\ fPc = "scan" /\ fIn.scan = "readTable"
    /\ fOut.i < fIn.n
    /\ fOut' = [fOut EXCEPT !.i = @ + 1, !.run = @ + 1]
    /\ UNCHANGED <<fIn, fPc>>
    /\ UNCHANGED <<varsM, varsD, varsX, varsC, varsA>>

\* one page of a string dictionary (app.js 1305-1344)
YDictionaryPage ==
    /\ fPc = "scan" /\ fIn.scan = "readStringDictionary"
    /\ fOut.i < fIn.n
    /\ fOut' = [fOut EXCEPT !.i = @ + 1, !.run = @ + 1]
    /\ UNCHANGED <<fIn, fPc>>
    /\ UNCHANGED <<varsM, varsD, varsX, varsC, varsA>>

\* the loop over the cells or over the pages ends (xpress9_wasm.c 354,
\* app.js 1305)
YLoopEnd ==
    /\ fPc = "scan" /\ fIn.scan \in {"readTable", "readStringDictionary"}
    /\ ~(fOut.i < fIn.n)
    /\ fOut' = [fOut EXCEPT !.result = fOut.i]
    /\ fPc' = "returned"
    /\ UNCHANGED fIn
    /\ UNCHANGED <<varsM, varsD, varsX, varsC, varsA>>

NextY == YFindPKNext \/ YFindPKReturn \/ YReadTableCell \/ YDictionaryPage \/ YLoopEnd

SpecYield == InitY /\ [][NextY]_vars

(***************************************************************************)
(* SpecYield: properties                                                   *)
(***************************************************************************)
\* C21: no scan runs an unbounded number of iterations without giving up
\* the thread: the longest scans of the model, of MaxScan iterations, are not
\* made in one piece
C21_ScansGiveUpTheThread == fOut.run < MaxScan

\* C21, observed: findPK has gone through a buffer without a signature, the
\* loop of readTable through a page and the loop of readStringDictionary
\* through its pages, each in one piece
C21_FindPKInOnePiece ==
    /\ fPc = "returned"
    /\ fIn.scan = "findPK"
    /\ fIn.b = Filler(MaxScan + 4)
    /\ fOut.result = -1
    /\ fOut.run = MaxScan

C21_CellsInOnePiece ==
    /\ fPc = "returned"
    /\ fIn.scan = "readTable"
    /\ fIn.n = MaxScan
    /\ fOut.run = MaxScan

C21_PagesInOnePiece ==
    /\ fPc = "returned"
    /\ fIn.scan = "readStringDictionary"
    /\ fIn.n = MaxScan
    /\ fOut.run = MaxScan

(***************************************************************************)
(* SpecRuns: two runs of processFiles on one page. A drop handler waits    *)
(* for the reads of its folders and handles before it calls processFiles   *)
(* (app.js 561-563), and processFiles gives the thread up at each await of *)
(* its loop (app.js 442, 447, 448); what runs between two awaits runs in   *)
(* one piece. fOut.app is appState, fOut.dropZone the display of the drop  *)
(* zone, fOut.run[r] the run r: its files, its place, and the lists of     *)
(* appState as they stood when it completed.                               *)
(***************************************************************************)
\* most files of one run
MaxRunFiles == 2

\* the files of the runs
CFiles ==
    {f \in AFiles : \/ f.name = "r.xlsx" /\ f.size = 100 /\ f.kind \in {"one", "notzip"}
                    \/ f.name = "r.xlsx" /\ f.size > MAX_FILE_SIZE
                    \/ f.name = "s.xlsx" /\ f.size = 100 /\ f.kind = "empty"
                    \/ f.name = "m.pbix" /\ f.size = 100 /\ f.kind = "mashup"}

\* the lists a handler ends with (app.js 562, 566)
CInputs == UNION {[1..n -> CFiles] : n \in 1..MaxRunFiles}

Runs == {1, 2}

NoRunYet == [pc |-> "none", files |-> <<>>, i |-> 1, final |-> EmptyAppState]

InitRuns ==
    /\ fIn = "page"
    /\ fPc = "loaded"
    /\ fOut = [app |-> EmptyAppState, dropZone |-> TRUE, run |-> [r \in Runs |-> NoRunYet]]
    /\ IdleM /\ IdleD /\ IdleX /\ IdleC /\ IdleA

RECURSIVE NextParsed(_, _)
\* the first file from i on that is not too large, or the place past the last
NextParsed(files, i) ==
    IF i <= Len(files) /\ TooLarge(files[i]) THEN NextParsed(files, i + 1) ELSE i

\* the error entries of the files i..j-1, each too large (app.js 440)
TooLargeErrors(files, i, j) ==
    [k \in 1..j - i |-> [file |-> files[i + k - 1].name, msg |-> "Too large (>150MB)"]]

\* appState after the end of processFiles (app.js 466)
Ended(app) == IF app.queries # <<>> THEN [app EXCEPT !.selectedFiles = app.files] ELSE app

\* processFiles of the run r from the head of its loop at the file i up to
\* its next await, or through its end (app.js 438-478)
Onward(r, files, dropZone, app, i) ==
    \E j \in {NextParsed(files, i)} :
       \E at \in {[app EXCEPT !.errors = @ \o TooLargeErrors(files, i, j)]} :
          \E ended \in {Ended(at)} :
             fOut' = IF j <= Len(files)
                     THEN [fOut EXCEPT !.app = at, !.dropZone = dropZone,
                                       !.run[r] = [@ EXCEPT !.pc = "parse", !.files = files, !.i = j]]
                     ELSE [fOut EXCEPT !.app = ended,
                                       !.dropZone = IF ended.queries # <<>> THEN dropZone ELSE TRUE,
                                       !.run[r] = [pc |-> "done", files |-> files, i |-> j,
                                                   final |-> ended]]

\* processFiles up to its first await (app.js 430-442)
Begin(r, files) == Onward(r, files, FALSE, EmptyAppState, 1)

\* a drop on the drop zone: the handler waits for its reads (app.js 531-561)
CDrop ==
    /\ fOut.dropZone
    /\ \E r \in Runs, files \in CInputs :
          /\ fOut.run[r].pc = "none"
          /\ \A q \in Runs : q < r => fOut.run[q].pc # "none"
          /\ uniqFiles(files) = files
          /\ fOut' = [fOut EXCEPT !.run[r] = [@ EXCEPT !.pc = "pending", !.files = files]]
    /\ UNCHANGED <<fIn, fPc>>
    /\ UNCHANGED <<varsM, varsD, varsX, varsC, varsA>>

\* the reads of a drop are done: processFiles is called (app.js 561-563)
CDropReady ==
    /\ \E r \in Runs :
          /\ fOut.run[r].pc = "pending"
          /\ Begin(r, fOut.run[r].files)
    /\ UNCHANGED <<fIn, fPc>>
    /\ UNCHANGED <<varsM, varsD, varsX, varsC, varsA>>

\* a pick in the file dialog: processFiles is called at once (app.js 566)
CChange ==
    /\ fOut.dropZone
    /\ \E r \in Runs, files \in CInputs :
          /\ fOut.run[r].pc = "none"
          /\ \A q \in Runs : q < r => fOut.run[q].pc # "none"
          /\ DistinctNames(files)
          /\ Begin(r, files)
    /\ UNCHANGED <<fIn, fPc>>
    /\ UNCHANGED <<varsM, varsD, varsX, varsC, varsA>>

\* the parser of the file of a run settles (app.js 442-445, 449): its errors
\* and queries go to appState as it is now; a parser that threw leaves one
\* error and the loop goes on to its next await
CParsed ==
    /\ \E r \in Runs :
          /\ fOut.run[r].pc = "parse"
          /\ \E f \in {fOut.run[r].files[fOut.run[r].i]} :
                \E app \in {[ProcessOne(fOut.app, f) EXCEPT !.worksheets = fOut.app.worksheets]} :
                   IF (IF isPbixFile(f.name) THEN parsePbixFile(f) ELSE parseXlsxFile(f)).threw
                   THEN Onward(r, fOut.run[r].files, fOut.dropZone, app, fOut.run[r].i + 1)
                   ELSE fOut' = [fOut EXCEPT !.app = app, !.run[r] = [@ EXCEPT !.pc = "extract"]]
    /\ UNCHANGED <<fIn, fPc>>
    /\ UNCHANGED <<varsM, varsD, varsX, varsC, varsA>>

\* the table reader of the file of a run settles (app.js 447-448): its
\* worksheets go to appState as it is now, and the loop goes on to its next
\* await or to its end
CExtracted ==
    /\ \E r \in Runs :
          /\ fOut.run[r].pc = "extract"
          /\ \E f \in {fOut.run[r].files[fOut.run[r].i]} :
                \E ws \in {[k \in 1..Len(AContents[f.kind].sheets) |->
                               [fileName |-> f.name, sheetName |-> AContents[f.kind].sheets[k]]]} :
                   \E app \in {[fOut.app EXCEPT !.worksheets = @ \o ws]} :
                      Onward(r, fOut.run[r].files, fOut.dropZone, app, fOut.run[r].i + 1)
    /\ UNCHANGED <<fIn, fPc>>
    /\ UNCHANGED <<varsM, varsD, varsX, varsC, varsA>>

NextRuns == CDrop \/ CDropReady \/ CChange \/ CParsed \/ CExtracted

SpecRuns == InitRuns /\ [][NextRuns]_vars

(***************************************************************************)
(* SpecRuns: properties                                                    *)
(***************************************************************************)
\* the names of the files of the run r
NamesOf(r) == {fOut.run[r].files[k].name : k \in 1..Len(fOut.run[r].files)}

\* every entry of the lists of app names a file of the run r
OnlyOf(r, app) ==
    /\ \A k \in 1..Len(app.files) : app.files[k] \in NamesOf(r)
    /\ \A k \in 1..Len(app.queries) : app.queries[k].fileName \in NamesOf(r)
    /\ \A k \in 1..Len(app.errors) : app.errors[k].file \in NamesOf(r)
    /\ \A k \in 1..Len(app.worksheets) : app.worksheets[k].fileName \in NamesOf(r)

\* C22: when a run of processFiles completes, the file, query, error and
\* worksheet lists hold only entries of the files of that run, also when
\* another run was started while it awaited a parse
C22_ListsHoldOnlyTheRun ==
    \A r \in Runs : fOut.run[r].pc = "done" => OnlyOf(r, fOut.run[r].final)

\* C22, observed: a run over r.xlsx awaits its parser, a drop of m.pbix whose
\* reads end then starts a second run, and the second run completes with
\* the file and the query of r.xlsx in its lists
C22_SecondRunHoldsFirstRunsEntries ==
    /\ fOut.run[2].pc = "done"
    /\ Len(fOut.run[1].files) = 1 /\ fOut.run[1].files[1].name = "r.xlsx"
    /\ Len(fOut.run[2].files) = 1 /\ fOut.run[2].files[1].name = "m.pbix"
    /\ fOut.run[2].final.files = <<"r.xlsx", "m.pbix">>
    /\ \E k \in 1..Len(fOut.run[2].final.queries) : fOut.run[2].final.queries[k].fileName = "r.xlsx"

\* a run that is alone on the page completes with its own entries only
C22_LoneRunHoldsItsOwn ==
    (fOut.run[1].pc = "done" /\ fOut.run[2].pc = "none") => OnlyOf(1, fOut.run[1].final)

(***************************************************************************)
(* SpecBlocks: the single-threaded block loop of decompressXpress9, block  *)
(* by block with its offsets (xpress9_wasm.c 109, 133-151, 154-175).       *)
(* The bytes of the buffer are read where the cursor comes to stand: the   *)
(* cursor only moves forward, so every header is read once, and the two    *)
(* sizes of a header and what the decoder makes of the bytes behind it are *)
(* drawn when the loop reaches them.                                       *)
(***************************************************************************)
\* the length of the signature, where the first block starts
\* (xpress9_wasm.c 109)
SigLen == 102

\* the length of a block header (xpress9_wasm.c 157)
HeaderLen == 8

\* most bytes of a buffer behind its signature
MaxTail == 20

\* the largest size a header declares that the heap of the decoder holds
MaxSize == 2

\* the sizes a header declares: Huge stands for the sizes at the top of the
\* range of getUint32, which no heap of a 32-bit module holds
DeclaredSizes == (0..MaxSize) \cup {Huge}

\* mod._malloc (xpress9_wasm.c 160-161): a size the heap holds is
\* allocated; for any other the build decides whether the module aborts,
\* which throws out of the call, or hands back the null pointer
malloc(size) == IF size = Huge THEN {"abort", "null"} ELSE {"ok"}

\* what the XPress9 library can make of the bytes of a block: the attach
\* fails; or the fetches write so many bytes and end with OK or with an
\* error status (xpress9_wasm.c 48-58)
DecodeOutcomes(uncompSize) ==
    {[attach |-> FALSE, written |-> 0, ok |-> FALSE]}
       \cup {[attach |-> TRUE, written |-> w, ok |-> b] :
                w \in 0..Min(uncompSize, MaxSize), b \in BOOLEAN}

\* the total of a decode that ended with an error status keeps the bytes
\* written before the error
PartialTotal(o) == o.written

\* the total after the fetch loop (xpress9_wasm.c 51-59): zero after an
\* error status, else the bytes written
FetchTotal(o) == IF o.ok THEN o.written ELSE 0

\* xpress9_decompress (xpress9_wasm.c 41-63) on a block the library treats
\* as o
xpress9_decompress(dec, o) ==
    IF dec.ctx = 0 THEN 0
    ELSE IF ~o.attach THEN 0
    ELSE FetchTotal(o)

\* the bytes the block at the offset decodes to, each named by its block and
\* its place in it
BytesOf(offset, n) == [k \in 1..n |-> <<offset, k>>]

\* the header is stepped over without a decode (xpress9_wasm.c 158); the
\* sum of the source, which a double holds, is compared from the other side
SteppedOver(len, offset, uncompSize, compSize) ==
    compSize = 0 \/ uncompSize = 0 \/ compSize > len - (offset + HeaderLen)

\* the offset decompressBlock returns behind a block (xpress9_wasm.c 174)
BehindBlock(offset, compSize) == offset + compSize

\* decompressBlock (xpress9_wasm.c 154-175) at the offset, on a header with
\* these sizes, an allocation of the destination that ends as dst and a
\* decode that ends as o: the offset returned, the chunk pushed if any, and
\* whether the call threw
decompressBlockAt(len, offset, uncompSize, compSize, dst, dec, o) ==
    IF SteppedOver(len, offset, uncompSize, compSize)
    THEN [offset |-> offset + HeaderLen, pushed |-> <<>>, result |-> -1, threw |-> FALSE]
    ELSE IF dst = "abort"
    THEN [offset |-> offset + HeaderLen, pushed |-> <<>>, result |-> -1, threw |-> TRUE]
    ELSE [offset |-> BehindBlock(offset + HeaderLen, compSize),
          pushed |-> IF xpress9_decompress(dec, o) > 0
                     THEN <<BytesOf(offset, xpress9_decompress(dec, o))>> ELSE <<>>,
          result |-> xpress9_decompress(dec, o),
          threw |-> FALSE]

\* the chunks in one array, in their order (xpress9_wasm.c 147-150)
RECURSIVE ConcatChunks(_)
ConcatChunks(chunks) ==
    IF chunks = <<>> THEN <<>> ELSE Head(chunks) \o ConcatChunks(Tail(chunks))

\* a call on a buffer of each length, with no decoder context left over
InitB ==
    /\ fIn \in {[len |-> n] : n \in SigLen..(SigLen + MaxTail)}
    /\ fPc = "init"
    /\ fOut = [dec |-> NoDecoder, offset |-> SigLen, chunks |-> <<>>, blocks |-> <<>>,
               cause |-> "none", result |-> <<>>]
    /\ IdleM /\ IdleD /\ IdleX /\ IdleC /\ IdleA

\* xpress9_init at the head of the single-threaded path (xpress9_wasm.c
\* 135): the call throws when it returns 0
BInit ==
    /\ fPc = "init"
    /\ \E create \in CreateOutcomes, start \in BOOLEAN :
          \E r \in {xpress9_init(fOut.dec, create, start)} :
             /\ fPc' = IF r.ret = 0 THEN "threw" ELSE "loop"
             /\ fOut' = [fOut EXCEPT !.dec = r.dec,
                                     !.cause = IF r.ret = 0 THEN "init" ELSE @]
    /\ UNCHANGED fIn
    /\ UNCHANGED <<varsM, varsD, varsX, varsC, varsA>>

\* one turn of the loop (xpress9_wasm.c 136-140): decompressBlock on the
\* header under the cursor, then the test whether the cursor moved
BBlock ==
    /\ fPc = "loop"
    /\ fOut.offset + HeaderLen <= fIn.len
    /\ \E uncompSize \in DeclaredSizes, compSize \in DeclaredSizes :
          \E dst \in malloc(uncompSize), o \in DecodeOutcomes(uncompSize) :
             \E b \in {decompressBlockAt(fIn.len, fOut.offset, uncompSize, compSize,
                                         dst, fOut.dec, o)} :
                /\ fOut' = [fOut EXCEPT
                               !.offset = b.offset,
                               !.chunks = @ \o b.pushed,
                               !.blocks = Append(@, [at |-> fOut.offset,
                                                     uncompSize |-> uncompSize,
                                                     compSize |-> compSize,
                                                     attach |-> o.attach, ok |-> o.ok,
                                                     written |-> o.written,
                                                     result |-> b.result]),
                               !.cause = IF b.threw THEN "block" ELSE @]
                /\ fPc' = IF b.threw THEN "threw"
                          ELSE IF b.offset = fOut.offset THEN "stalled"
                          ELSE "loop"
    /\ UNCHANGED fIn
    /\ UNCHANGED <<varsM, varsD, varsX, varsC, varsA>>

\* the loop is left, fewer than 8 bytes being ahead of the cursor or the
\* cursor having stayed; the decoder is released and the chunks are put
\* together (xpress9_wasm.c 136, 139, 144-151)
BReturn ==
    /\ \/ fPc = "loop" /\ ~(fOut.offset + HeaderLen <= fIn.len)
       \/ fPc = "stalled"
    /\ fPc' = "returned"
    /\ fOut' = [fOut EXCEPT !.dec = xpress9_free(@), !.result = ConcatChunks(fOut.chunks)]
    /\ UNCHANGED fIn
    /\ UNCHANGED <<varsM, varsD, varsX, varsC, varsA>>

NextB == BInit \/ BBlock \/ BReturn

SpecBlocks == InitB /\ [][NextB]_vars

C23_EveryTurnAdvances ==
    [][(fPc = "loop" /\ fPc' \in {"loop", "stalled"})
          => fOut'.offset >= fOut.offset + HeaderLen]_vars

\* the test for a cursor that stayed (xpress9_wasm.c 139) never succeeds
C23_NeverStalls == fPc # "stalled"

\* the cursor never passes the end of the buffer
C23_CursorBounded == fOut.offset <= fIn.len

\* the block of the history went through the decoder and the decoder ended
\* it with OK
Decompressed(b) ==
    /\ ~SteppedOver(fIn.len, b.at, b.uncompSize, b.compSize)
    /\ b.attach /\ b.ok

\* the outputs of the blocks of the history that decompressed, one after
\* the other in the order the loop came to them
RECURSIVE OutputsOf(_)
OutputsOf(blocks) ==
    IF blocks = <<>> THEN <<>>
    ELSE (IF Decompressed(Head(blocks))
          THEN BytesOf(Head(blocks).at, Head(blocks).written) ELSE <<>>)
         \o OutputsOf(Tail(blocks))

\* C24: the decompressed output is the concatenation, in processing order,
\* of the outputs of exactly the blocks that decompressed successfully; a
\* block on which the decoder fails contributes no byte
C24_OutputIsTheDecompressedBlocks ==
    fPc = "returned" => fOut.result = OutputsOf(fOut.blocks)

\* C24, the case: the decoder fails on the first block after writing two
\* bytes, the block behind it decompresses to one byte, and the output is
\* that one byte
C24_FailedBlockThenDecompressed ==
    /\ fPc = "returned"
    /\ Len(fOut.blocks) = 2
    /\ fOut.blocks[1].result = 0 /\ fOut.blocks[1].attach /\ fOut.blocks[1].written = 2
    /\ fOut.blocks[2].result = 1
    /\ fOut.result = <<<<fOut.blocks[2].at, 1>>>>

\* the chunks of the blocks decoded so far stay as they are in every turn
\* of the loop, and a turn on which the decoder fails is followed by the
\* next turn or by the end of the buffer
C24_ChunksStay ==
    [][fPc = "loop" =>
          /\ Len(fOut'.chunks) >= Len(fOut.chunks)
          /\ SubSeq(fOut'.chunks, 1, Len(fOut.chunks)) = fOut.chunks
          /\ (fPc' = "loop" /\ fOut'.blocks[Len(fOut'.blocks)].result = 0
                 => fOut'.chunks = fOut.chunks)]_vars

(***************************************************************************)
(* SpecPbix: parsePbixFile on one package, path by path (app.js 49-80).    *)
(* Every query carries the path that returned it in the field via, which   *)
(* the program does not keep.                                              *)
(***************************************************************************)
\* most queries one path returns
MaxYield == 2

\* the lists of query names a path can return
RECURSIVE YieldLists(_)
YieldLists(n) ==
    IF n = 0 THEN {<<>>}
    ELSE YieldLists(n - 1)
            \cup {Append(l, x) : l \in {m \in YieldLists(n - 1) : Len(m) = n - 1}, x \in {"A", "B"}}

\* what an entry of the package can be: absent, throwing when read or
\* parsed, or returning names
EntryOutcomes == {Absent, Throws} \cup {Yields(l) : l \in YieldLists(MaxYield)}

\* the packages: whether JSZip opens the file, its DataMashup,
\* DataModelSchema and DataModel entries, and whether the data-model decoder
\* is loaded (app.js 69)
PInputs ==
    [zip : BOOLEAN, mashup : EntryOutcomes, schema : EntryOutcomes, model : EntryOutcomes,
     decoder : BOOLEAN]

\* the queries a path returned, marked with the path
Via(names, fn, path) ==
    [k \in 1..Len(names) |-> [name |-> names[k], fileName |-> fn, via |-> path]]

\* a test that lets a later path run whatever the earlier ones returned
AlwaysRuns(queries) == TRUE

\* !queries.length (app.js 60, 68)
NoneYet(queries) == Len(queries) = 0

\* one path of parsePbixFile on its entry (app.js 56-57, 63-64, 70-74): the
\* queries of the entry go through addUnique, an error is caught and noted
RunPath(st, entry, path, label) ==
    IF entry.throws
    THEN [st EXCEPT !.errors = Append(@, label), !.tried = Append(@, path)]
    ELSE [st EXCEPT !.queries = AddUnseen(@, Via(entry.names, "m.pbix", path)),
                    !.tried = Append(@, path)]

InitP ==
    /\ fIn \in PInputs
    /\ fPc = "load"
    /\ fOut = [queries |-> <<>>, errors |-> <<>>, tried |-> <<>>]
    /\ IdleM /\ IdleD /\ IdleX /\ IdleC /\ IdleA

\* JSZip.loadAsync (app.js 50): the call is left by its error when the file
\* is no archive
PLoad ==
    /\ fPc = "load"
    /\ fPc' = IF fIn.zip THEN "path1" ELSE "threw"
    /\ UNCHANGED <<fIn, fOut>>
    /\ UNCHANGED <<varsM, varsD, varsX, varsC, varsA>>

\* path 1, the MS-QDEFF resolver on the DataMashup entry (app.js 54-58)
PMashup ==
    /\ fPc = "path1"
    /\ fOut' = IF fIn.mashup.has THEN RunPath(fOut, fIn.mashup, 1, "DataMashup: error")
               ELSE fOut
    /\ fPc' = "path2"
    /\ UNCHANGED fIn
    /\ UNCHANGED <<varsM, varsD, varsX, varsC, varsA>>

\* path 2, the JSON schema (app.js 60-66)
PSchema ==
    /\ fPc = "path2"
    /\ fOut' = IF NoneYet(fOut.queries) /\ fIn.schema.has
               THEN RunPath(fOut, fIn.schema, 2, "DataModelSchema: error")
               ELSE fOut
    /\ fPc' = "path3"
    /\ UNCHANGED fIn
    /\ UNCHANGED <<varsM, varsD, varsX, varsC, varsA>>

\* path 3, the compressed data model, and the return (app.js 68-79)
PModel ==
    /\ fPc = "path3"
    /\ fOut' = IF NoneYet(fOut.queries) /\ fIn.model.has
               THEN IF fIn.decoder
                    THEN RunPath(fOut, fIn.model, 3, "DataModel: error")
                    ELSE [fOut EXCEPT !.errors = Append(@, "DataModel decoder not available")]
               ELSE fOut
    /\ fPc' = "returned"
    /\ UNCHANGED fIn
    /\ UNCHANGED <<varsM, varsD, varsX, varsC, varsA>>

NextP == PLoad \/ PMashup \/ PSchema \/ PModel

SpecPbix == InitP /\ [][NextP]_vars

(***************************************************************************)
(* SpecPbix: properties                                                    *)
(***************************************************************************)
\* the paths are tried in the order 1, 2, 3
InOrder(tried) == \A i, j \in 1..Len(tried) : i < j => tried[i] < tried[j]

\* C25: the resolver path is tried first, the JSON schema path runs only if
\* the resolver returned no query, the data-model path only if both earlier
\* paths returned none, and so all queries returned for one file come from
\* one path
C25_QueriesFromOnePath ==
    /\ InOrder(fOut.tried)
    /\ \A i, j \in 1..Len(fOut.queries) : fOut.queries[i].via = fOut.queries[j].via
    /\ fPc = "returned" =>
          /\ fIn.mashup.has => fOut.tried # <<>> /\ fOut.tried[1] = 1
          /\ \A k \in 1..Len(fOut.tried) :
                /\ fOut.tried[k] = 2 => fIn.mashup.names = <<>>
                /\ fOut.tried[k] = 3 =>
                      fIn.mashup.names = <<>> /\ (fIn.schema.has => fIn.schema.names = <<>>)

\* C25, a later path runs only on an empty list of queries
C25_LaterPathOnlyOnNone ==
    [][(fPc \in {"path2", "path3"} /\ fOut'.tried # fOut.tried) => fOut.queries = <<>>]_vars

\* C25, the case: the resolver returns no query, the schema returns one, the
\* data model holds queries too and is not read
C25_SchemaAfterEmptyResolver ==
    /\ fPc = "returned"
    /\ fIn.mashup = Yields(<<>>) /\ fIn.schema = Yields(<<"A">>) /\ fIn.model = Yields(<<"B">>)
    /\ fOut.tried = <<1, 2>>
    /\ fOut.queries = Via(<<"A">>, "m.pbix", 2)

(***************************************************************************)
(* SpecX9: what a successful xpress9_init stands for                       *)
(***************************************************************************)
\* C26: xpress9_init reports success only when a decoder context exists and
\* its session has been started: in the states a call of decompressXpress9
\* is in right after an init that returned 1, in either framing mode, the
\* context is there and its session is started
C26_InitSuccessMeansSession ==
    xPc \in {"single", "blocks"} => xDec.ctx # 0 /\ xDec.session = "started"

\* C26, observed: the init of the first call created a context whose session
\* did not start and returned 0; the init of the second, single-threaded
\* call returned 1 on that context
C26_SuccessOnUnstartedContext ==
    /\ xPc = "single"
    /\ xRun.call = 2
    /\ xDec.ctx = 1 /\ xDec.made = 1
    /\ xDec.session = "failed"

\* in multi-threaded framing the release before every init keeps the
\* success of init to started sessions
C26_GroupInitMeansSession ==
    xPc = "blocks" => xDec.ctx # 0 /\ xDec.session = "started"

(***************************************************************************)
(* SpecCycle: readTable over databases whose page pointers loop back       *)
(* (xpress9_wasm.c 282-293, 346-375)                                       *)
(***************************************************************************)
\* an overflow page full of text bytes whose next-page field is its own
\* number
LoopOverflowPage == BE4(LoopPageNum) \o [i \in 1..(pageSize - 4) |-> 66]

\* the databases: page 2 is the root. self: the right child of the root is
\* the root. child: the one cell of the root points to the root. ancestor:
\* the root is over the leaf page 4 and the interior page 3, whose right
\* child is the root. chain: a tree without a loop, whose leaf holds a cell
\* that continues on the looping overflow page
LoopDatabases ==
    {[shape |-> "self", kinds |-> <<>>,
      db |-> <<ZeroBytes(pageSize), InteriorPage(<<>>, 2)>>]}
    \cup
    {[shape |-> "child", kinds |-> <<a>>,
      db |-> <<ZeroBytes(pageSize), InteriorPage(<<2>>, 3), LeafPage(CellsOf(<<a>>, 1))>>] :
        a \in CellKinds}
    \cup
    {[shape |-> "ancestor", kinds |-> <<a>>,
      db |-> <<ZeroBytes(pageSize), InteriorPage(<<4>>, 3), InteriorPage(<<>>, 2),
               LeafPage(CellsOf(<<a>>, 1)), OverflowPage>>] : a \in CellKinds}
    \cup
    {[shape |-> "chain", kinds |-> <<a, "loop overflow">>,
      db |-> <<ZeroBytes(pageSize), InteriorPage(<<3>>, 4), LeafPage(CellsOf(<<a>>, 1)),
               LeafPage(CellsOf(<<"loop overflow">>, 2)), OverflowPage, LoopOverflowPage>>] :
        a \in CellKinds}

InitCycle ==
    /\ fIn \in LoopDatabases
    /\ fPc = "database"
    /\ fOut = [stack |-> <<>>, rows |-> <<>>, visited |-> <<>>, overflowed |-> FALSE]
    /\ IdleM /\ IdleD /\ IdleX /\ IdleC /\ IdleA

SpecCycle == InitCycle /\ [][NextS]_vars

(***************************************************************************)
(* SpecCycle: properties                                                   *)
(***************************************************************************)
\* the calls of traverse on the page so far
VisitsOf(pageNum) == Cardinality({k \in 1..Len(fOut.visited) : fOut.visited[k] = pageNum})

\* C27: the table B-tree traversal terminates on every database image, and
\* each page is visited a bounded number of times even when child pointers
\* or the right-child pointer form a cycle: readTable is not left by an
\* exhausted call stack, and no page is visited more often than the image
\* has pages, whatever the call stack of the engine holds
C27_PagesVisitedBoundedly ==
    /\ ~fOut.overflowed
    /\ \A pageNum \in 1..Len(fIn.db) : VisitsOf(pageNum) <= Len(fIn.db)

\* C27, observed: the right child of the root is the root, traverse is
\* called on the root as often as the call stack holds calls, and readTable
\* is left by the error of the full stack
C27_SelfPointerFillsTheStack ==
    /\ fIn.shape = "self"
    /\ fPc = "threw" /\ fOut.overflowed
    /\ VisitsOf(rootPage) = MaxDepth

\* observed: the root is reached again through a descendant, and the row of
\* the leaf below it is collected once per round
C27_AncestorPointerRepeatsRows ==
    /\ fIn.shape = "ancestor" /\ fIn.kinds = <<"int">>
    /\ Len(fOut.rows) = 3
    /\ \A k \in 1..3 : fOut.rows[k].rowid = 1

\* an overflow chain that loops back is read for the declared payload length
\* and no further: the cell of 1200 bytes is returned as its record, and
\* readTable returns
C27_LoopingChainReadToLength ==
    (fIn.shape = "chain" /\ fPc = "returned") =>
        /\ fOut.rows # <<>>
        /\ fOut.rows[Len(fOut.rows)] = [rowid |-> 2, values |-> CellValues("loop overflow")]

\* the case of the looping chain is reached
C27_LoopingChainReturned == fIn.shape = "chain" /\ fPc = "returned"

(***************************************************************************)
(* SpecUnpack: the unpacking of one sub-segment word at every bit width    *)
(* (app.js 1143-1147, 1175-1192)                                           *)
(***************************************************************************)
\* words of a sub-segment that are not the zero word: 0x0123456709ABCDEF,
\* the word of the 16-bit fields 0, 1, 2, 3, the word of 64 one bits, and
\* the word whose only one bit is the most significant
UWords ==
    {WordOf(<<1, 35, 69, 103, 9, 171, 205, 239>>), WordOf(<<0, 3, 0, 2, 0, 1, 0, 0>>),
     [k \in 1..64 |-> 1], [k \in 1..64 |-> IF k = 64 THEN 1 ELSE 0]}

\* the bit widths from 1 to 32 but 31: the mask of the width 31,
\* (1 << 31) - 1, is the negative number -2147483649, and the fields it
\* cuts pass the range of the integers here
UWidths == (1..30) \cup {32}

\* a value-index file of the one word, with ids counted and the minimum id 100
UInputs ==
    {[idfData |-> [primarySegment |-> <<>>, subSegment |-> <<w>>],
      meta |-> [minDataId |-> 100, countBitPacked |-> 1, bitWidth |-> b]] :
        w \in UWords, b \in UWidths}

InitU ==
    /\ fIn \in UInputs
    /\ fPc = "idf"
    /\ fOut = [bitpackedValues |-> <<>>, vector |-> <<>>]
    /\ IdleM /\ IdleD /\ IdleX /\ IdleC /\ IdleA

SpecUnpack == InitU /\ [][NextI]_vars

(***************************************************************************)
(* SpecUnpack: properties                                                  *)
(***************************************************************************)
\* the minimum id plus the unsigned value of the bitWidth bits of the word
\* from position p up, in two 16-bit halves
IdOfField(word, p, minDataId, bitWidth) ==
    PlusCursor([hi |-> FieldFrom(word, p + 16, Max(bitWidth - 16, 0)),
                lo |-> FieldFrom(word, p, Min(bitWidth, 16))], minDataId)

\* the ids of the claim for one word: floor(64/bitWidth) of them, the j-th
\* from the j-th field of bitWidth bits
IdsOfWord(word, minDataId, bitWidth) ==
    [j \in 1..(64 \div bitWidth) |-> IdOfField(word, (j - 1) * bitWidth + 1, minDataId, bitWidth)]

\* C28: for every bitWidth from 1 to 32, unpacking one non-shortcut 64-bit
\* sub-segment word yields exactly floor(64/bitWidth) ids, and each id is the
\* minimum dictionary id plus the unsigned value of one bitWidth-bit field
\* of the word
C28_EveryWidthUnpacksItsFields ==
    fPc = "unpacked" =>
        fOut.bitpackedValues =
            IdsOfWord(fIn.idfData.subSegment[1], fIn.meta.minDataId, fIn.meta.bitWidth)

\* C28, observed: at the width 32 the word of 64 one bits is unpacked to the
\* minimum id twice, both fields being 0xFFFFFFFF
C28_Width32YieldsTheMinimum ==
    /\ fPc = "unpacked"
    /\ fIn.meta.bitWidth = 32
    /\ fIn.idfData.subSegment = <<[k \in 1..64 |-> 1]>>
    /\ fOut.bitpackedValues = <<Id(100), Id(100)>>

\* observed: at the width 3 the word is unpacked to 22 ids, one more than
\* floor(64/3), the last from the one bit left over
C28_Width3YieldsAnExtraId ==
    /\ fPc = "unpacked"
    /\ fIn.meta.bitWidth = 3
    /\ fIn.idfData.subSegment = <<[k \in 1..64 |-> 1]>>
    /\ Len(fOut.bitpackedValues) = 22
    /\ fOut.bitpackedValues[22] = Id(101)

\* at the widths 1, 2, 4, 8 and 16 the ids are those of the claim
C28_WidthsThatDivide64 ==
    (fPc = "unpacked" /\ fIn.meta.bitWidth \in {1, 2, 4, 8, 16}) =>
        fOut.bitpackedValues =
            IdsOfWord(fIn.idfData.subSegment[1], fIn.meta.minDataId, fIn.meta.bitWidth)

(***************************************************************************)
(* SpecRun: how a run accounts for its files                               *)
(***************************************************************************)
\* the file is parsed and its parser returns at least one query
YieldsQuery(f) ==
    /\ ~TooLarge(f)
    /\ ~(IF isPbixFile(f.name) THEN parsePbixFile(f) ELSE parseXlsxFile(f)).threw
    /\ (IF isPbixFile(f.name) THEN parsePbixFile(f) ELSE parseXlsxFile(f)).queries # <<>>

\* the name is in the file list; an error entry names it
Listed(name) == \E k \in 1..Len(aState.files) : aState.files[k] = name

ErrorNames(name) == \E k \in 1..Len(aState.errors) : aState.errors[k].file = name

\* C29: when the loop of a run of processFiles is over, the name of every
\* input file is in the file list if and only if the file yielded a query,
\* and otherwise an error entry names it; and at all times the file name of
\* every query is in the file list and the selected files are files of the
\* list
C29_EveryFileAccountedFor ==
    /\ LoopDone =>
          \A k \in 1..Len(aInput) :
             /\ Listed(aInput[k].name) <=> YieldsQuery(aInput[k])
             /\ ~YieldsQuery(aInput[k]) => ErrorNames(aInput[k].name)
    /\ \A k \in 1..Len(aState.queries) : Listed(aState.queries[k].fileName)
    /\ \A k \in 1..Len(aState.selectedFiles) : Listed(aState.selectedFiles[k])

\* C29, observed: two files named r.xlsx from two folders, the first with a
\* query, the second with none: the loop is over, the second left its error
\* entry, and its name is in the file list
C29_EmptyFileListedByItsName ==
    /\ LoopDone
    /\ Len(aInput) = 2
    /\ aInput[1].name = "r.xlsx" /\ aInput[1].kind = "one" /\ aInput[1].size = 100
    /\ aInput[2].name = "r.xlsx" /\ aInput[2].kind = "empty" /\ aInput[2].size = 200
    /\ aState.files = <<"r.xlsx">>
    /\ aState.errors = <<[file |-> "r.xlsx", msg |-> "No Power Query code found"]>>

\* over files of distinct names the accounting is that of the claim
C29_DistinctNamesAccountedFor ==
    (LoopDone /\ DistinctNames(aInput)) =>
        \A k \in 1..Len(aInput) :
           /\ Listed(aInput[k].name) <=> YieldsQuery(aInput[k])
           /\ ~YieldsQuery(aInput[k]) => ErrorNames(aInput[k].name)

(***************************************************************************)
(* SpecPanel: the code panel after renderCodePanel, its file filters, its  *)
(* query checkboxes and Copy Selected (app.js 379-419, 579-597, 641-642)   *)
(***************************************************************************)
\* most queries of one file in the panel
MaxPanelQueries == 2

\* the files of the panel, in the order of appState.files
PanelFiles == <<"a.xlsx", "b.xlsx">>

\* the query checkboxes of a panel in document order: those of the first
\* file, then those of the second (app.js 393-398)
PanelQueries(counts) ==
    [k \in 1..counts[1] |-> [fileName |-> PanelFiles[1], name |-> k]]
       \o [k \in 1..counts[2] |-> [fileName |-> PanelFiles[2], name |-> k]]

\* the panels: so many queries of either file
PanelInputs == {<<n, m>> : n \in 1..MaxPanelQueries, m \in 1..MaxPanelQueries}

\* the panel as renderCodePanel leaves it (app.js 386-398, 407): every filter
\* and every query checkbox checked, every section shown
Rendered(counts, out) ==
    [out EXCEPT !.filter = [k \in 1..Len(PanelFiles) |-> TRUE],
                !.shown = [k \in 1..Len(PanelFiles) |-> TRUE],
                !.checked = [k \in 1..Len(PanelQueries(counts)) |-> TRUE],
                !.count = Len(PanelQueries(counts))]

\* the number updSel writes on the button (app.js 411)
updSel(out) == [out EXCEPT !.count = Cardinality({k \in DOMAIN out.checked : out.checked[k]})]

\* the index of a file of the panel
FileIndex(name) == CHOOSE k \in 1..Len(PanelFiles) : PanelFiles[k] = name

\* the change handler of a filter sets every query checkbox of its section
\* to the state of the filter (app.js 402)
SetSection(checked, q, f, on) ==
    [k \in DOMAIN checked |-> IF q[k].fileName = PanelFiles[f] THEN on ELSE checked[k]]

\* getSelCode (app.js 413-419): the checked query checkboxes in document
\* order, which is the order of the text, file by file
getSelCode(q, checked) ==
    LET RECURSIVE From(_)
        From(k) == IF k > Len(q) THEN <<>>
                   ELSE (IF checked[k] THEN <<q[k]>> ELSE <<>>) \o From(k + 1)
    IN  From(1)

\* the page after a run with queries: the panel is rendered; the text of the
\* Select All button is either of its two; nothing has been copied
InitPanel ==
    /\ fIn \in PanelInputs
    /\ fPc = "panel"
    /\ \E label \in {"Select All", "Deselect All"} :
          fOut = Rendered(fIn, [filter |-> <<>>, shown |-> <<>>, checked |-> <<>>, count |-> 0,
                                label |-> label, copied |-> <<>>, unfiltered |-> {}])
    /\ IdleM /\ IdleD /\ IdleX /\ IdleC /\ IdleA

\* the filter checkbox of a file is clicked (app.js 399-405)
PnFilter ==
    /\ fPc = "panel"
    /\ \E f \in 1..Len(PanelFiles) :
          fOut' = updSel([fOut EXCEPT
                             !.filter[f] = ~fOut.filter[f],
                             !.shown[f] = ~fOut.filter[f],
                             !.checked = SetSection(@, PanelQueries(fIn), f, ~fOut.filter[f])])
    /\ UNCHANGED <<fIn, fPc>>
    /\ UNCHANGED <<varsM, varsD, varsX, varsC, varsA>>

\* a query checkbox of a section that is shown is clicked (app.js 406)
PnQuery ==
    /\ fPc = "panel"
    /\ \E k \in 1..Len(PanelQueries(fIn)) :
          /\ fOut.shown[FileIndex(PanelQueries(fIn)[k].fileName)]
          /\ fOut' = updSel([fOut EXCEPT !.checked[k] = ~@])
    /\ UNCHANGED <<fIn, fPc>>
    /\ UNCHANGED <<varsM, varsD, varsX, varsC, varsA>>

\* the Select All button is clicked (app.js 592-597)
PnSelectAll ==
    /\ fPc = "panel"
    /\ \E all \in {\A k \in DOMAIN fOut.checked : fOut.checked[k]} :
          fOut' = updSel([fOut EXCEPT
                             !.checked = [k \in DOMAIN fOut.checked |-> ~all],
                             !.label = IF all THEN "Select All" ELSE "Deselect All"])
    /\ UNCHANGED <<fIn, fPc>>
    /\ UNCHANGED <<varsM, varsD, varsX, varsC, varsA>>

\* Ctrl+A on the code panel (app.js 641)
PnCtrlA ==
    /\ fPc = "panel"
    /\ fOut' = updSel([fOut EXCEPT !.checked = [k \in DOMAIN fOut.checked |-> TRUE]])
    /\ UNCHANGED <<fIn, fPc>>
    /\ UNCHANGED <<varsM, varsD, varsX, varsC, varsA>>

\* Copy Selected is clicked, or Ctrl+C is pressed (app.js 579-590, 642):
\* copyClip copies the text of getSelCode unless it is empty (app.js 422);
\* unfiltered keeps the files whose filter was unchecked at that moment
PnCopy ==
    /\ fPc = "panel"
    /\ \E text \in {getSelCode(PanelQueries(fIn), fOut.checked)} :
          /\ text # <<>>
          /\ fOut' = [fOut EXCEPT
                         !.copied = text,
                         !.unfiltered = {PanelFiles[f] : f \in {g \in 1..Len(PanelFiles) :
                                                                  ~fOut.filter[g]}}]
    /\ UNCHANGED <<fIn, fPc>>
    /\ UNCHANGED <<varsM, varsD, varsX, varsC, varsA>>

\* Select All Files of the file legend is clicked (app.js 326-330): the
\* panel is rendered anew
PnRender ==
    /\ fPc = "panel"
    /\ fOut' = Rendered(fIn, fOut)
    /\ UNCHANGED <<fIn, fPc>>
    /\ UNCHANGED <<varsM, varsD, varsX, varsC, varsA>>

NextPanel == PnFilter \/ PnQuery \/ PnSelectAll \/ PnCtrlA \/ PnCopy \/ PnRender

SpecPanel == InitPanel /\ [][NextPanel]_vars

(***************************************************************************)
(* SpecPanel: properties                                                   *)
(***************************************************************************)
\* C30: once the filter checkbox of a file is unchecked, none of the queries
\* of that file is in the text Copy Selected produces, after any sequence
\* of Select All clicks, Ctrl+A and query checkbox changes, until the filter
\* is checked again: no text is copied that holds a query of a file whose
\* filter was unchecked at the copy
C30_FilteredFileNotCopied ==
    \A k \in 1..Len(fOut.copied) : fOut.copied[k].fileName \notin fOut.unfiltered

\* C30, observed: the filter of a.xlsx is unchecked and its section hidden,
\* and the text copied last, with the filter unchecked, holds the query of
\* a.xlsx
C30_HiddenQueryCopied ==
    /\ fIn = <<1, 1>>
    /\ ~fOut.filter[1] /\ ~fOut.shown[1]
    /\ fOut.unfiltered = {"a.xlsx"}
    /\ fOut.copied = PanelQueries(fIn)

\* the click that unchecks a filter leaves no query checkbox of its file
\* checked
C30_UncheckingClearsTheSection ==
    [][\A f \in 1..Len(PanelFiles) :
          (fOut.filter[f] /\ ~fOut'.filter[f]) =>
              \A k \in DOMAIN fOut'.checked :
                 PanelQueries(fIn)[k].fileName = PanelFiles[f] => ~fOut'.checked[k]]_vars

====
